---- MODULE Spec2Model ----
(***************************************************************************)
(* Model of WoozyMasta/rats (Release App Tag Selector): the pure           *)
(* tag-selection pipeline.  The repository holds two generations of the    *)
(* pipeline side by side:                                                  *)
(*   - the Filter generation: src/filter.go, src/range.go, src/sort.go,    *)
(*     src/api.go (Select = Sort(Filter)), src/unnamed/part_001 (Select    *)
(*     with the limit moved after the sort);                               *)
(*   - the Select generation: src/rats.go with the stage functions of      *)
(*     src/unnamed/part_010.                                               *)
(* Both are modelled, each under the names its source uses.                *)
(*                                                                         *)
(* A tag (a Go string) is a record that spells the string out:             *)
(*   kind  "ver"  digits and dots, optional prefix, prerelease, build      *)
(*         "junk" any other text (word identifies it; word 0 is "")        *)
(*         "sig"  a signature tag sha256-<64 hex>.sig                      *)
(*   pfx   "" or "v", the leading marker                                   *)
(*   segs  the dot-separated numeric segments written in the tag           *)
(*   pre   the prerelease identifiers: n < 100 is the numeric identifier   *)
(*         n, 100 + k is the k-th alphanumeric identifier in ASCII order   *)
(*         (SemVer orders numeric identifiers below alphanumeric ones)     *)
(*   build 0 for none, k > 0 for the k-th build-metadata text              *)
(***************************************************************************)
EXTENDS Integers, Sequences, FiniteSets, TLC

VARIABLES op, tags, opt, out, info

vars == <<op, tags, opt, out, info>>

\* ------------------------------------------------------------------ bounds

\* Longest input list handed to a range stage.
MaxRangeLen == 2

\* Longest input list handed to a dedup or aggregation stage, to a sort,
\* or to Filter / Select under the gate configurations.
MaxLen == 3

\* Longest input list handed to Filter or Select.
MaxSelectLen == 3

\* Largest Limit tried.
MaxLimit == 2

\* Longest tag list given to the raw prefilter.
MaxPrefilterLen == 2

\* ------------------------------------------------------------- sequences

Min2(a, b) == IF a < b THEN a ELSE b

SeqsUpTo(S, n) == UNION {[1..k -> S] : k \in 0..n}

Range_(s) == {s[i] : i \in 1..Len(s)}

IsSubseqAt(s, t, f) ==
    /\ \A i \in 1..Len(s) : s[i] = t[f[i]]
    /\ \A i, j \in 1..Len(s) : i < j => f[i] < f[j]

\* ------------------------------------------------------------------- tags

Ver(pfx, segs, pre, build) ==
    [kind |-> "ver", pfx |-> pfx, segs |-> segs, pre |-> pre, build |-> build, word |-> 0]

Junk(w) ==
    [kind |-> "junk", pfx |-> "", segs |-> <<>>, pre |-> <<>>, build |-> 0, word |-> w]

\* The empty string.
EmptyStr == Junk(0)

\* A signature tag, sha256-<64 hex>.sig.
SigTag ==
    [kind |-> "sig", pfx |-> "", segs |-> <<>>, pre |-> <<>>, build |-> 0, word |-> 0]

\* The decimal digits of n < 100 as bytes.
Digits(n) == IF n < 10 THEN <<48 + n>> ELSE <<48 + (n \div 10), 48 + (n % 10)>>

\* The bytes of a prerelease identifier: alpha, beta, rc or a number.
IdentBytes(k) ==
    CASE k = 100 -> <<97, 108, 112, 104, 97>>
      [] k = 101 -> <<98, 101, 116, 97>>
      [] k >= 102 -> <<114, 99>>
      [] OTHER -> Digits(k)

\* The bytes of a non-version text: "", "latest", "vnext", "next", "edge".
WordBytes(w) ==
    CASE w = 0 -> <<>>
      [] w = 1 -> <<108, 97, 116, 101, 115, 116>>
      [] w = 3 -> <<118, 110, 101, 120, 116>>
      [] w = 4 -> <<110, 101, 120, 116>>
      [] OTHER -> <<101, 100, 103, 101>>

\* The parts of a list rendered by f and joined by dots.
RECURSIVE JoinDots(_, _, _)
JoinDots(parts, i, alpha) ==
    IF i > Len(parts) THEN <<>>
    ELSE (IF i > 1 THEN <<46>> ELSE <<>>)
         \o (IF alpha THEN IdentBytes(parts[i]) ELSE Digits(parts[i]))
         \o JoinDots(parts, i + 1, alpha)

\* The tag as the bytes of the Go string it stands for.
Bytes(t) ==
    CASE t.kind = "junk" -> WordBytes(t.word)
      [] t.kind = "sig" -> <<115, 104, 97, 50, 53, 54, 45>>
      [] OTHER ->
           (IF t.pfx = "v" THEN <<118>> ELSE IF t.pfx = "V" THEN <<86>> ELSE <<>>)
           \o JoinDots(t.segs, 1, FALSE)
           \o (IF t.pre # <<>> THEN <<45>> \o JoinDots(t.pre, 1, TRUE) ELSE <<>>)
           \o (IF t.build # 0 THEN <<43, 98>> \o Digits(t.build) ELSE <<>>)

\* Go's < on strings: bytewise lexicographic.
RECURSIVE BytesLess(_, _, _)
BytesLess(a, b, i) ==
    IF i > Len(b) THEN FALSE
    ELSE IF i > Len(a) THEN TRUE
    ELSE IF a[i] # b[i] THEN a[i] < b[i]
    ELSE BytesLess(a, b, i + 1)

StrLess(t, u) == BytesLess(Bytes(t), Bytes(u), 1)

\* ---------------------------------------------- the semver library (§6)

\* The zero value semver.Semver{}.
ZeroSemver ==
    [Valid |-> FALSE, Major |-> 0, Minor |-> 0, Patch |-> 0, Prerelease |-> <<>>,
     Build |-> 0, HasMinor |-> FALSE, HasPatch |-> FALSE, Original |-> EmptyStr]

\* semver.Parse / semver.ParseNoCanon: one to three numeric segments, absent
\* segments read as zero and recorded in the flags.
Parse(t) ==
    IF t.kind = "ver" /\ Len(t.segs) \in 1..3
    THEN [Valid |-> TRUE,
          Major |-> t.segs[1],
          Minor |-> IF Len(t.segs) >= 2 THEN t.segs[2] ELSE 0,
          Patch |-> IF Len(t.segs) >= 3 THEN t.segs[3] ELSE 0,
          Prerelease |-> t.pre,
          Build |-> t.build,
          HasMinor |-> Len(t.segs) >= 2,
          HasPatch |-> Len(t.segs) >= 3,
          Original |-> t]
    ELSE ZeroSemver

IsValid(v) == v.Valid

\* Precedence of two prerelease identifier lists, neither empty.
RECURSIVE ComparePre(_, _, _)
ComparePre(p, q, i) ==
    IF i > Len(p) /\ i > Len(q) THEN 0
    ELSE IF i > Len(p) THEN -1
    ELSE IF i > Len(q) THEN 1
    ELSE IF p[i] < q[i] THEN -1
    ELSE IF p[i] > q[i] THEN 1
    ELSE ComparePre(p, q, i + 1)

\* Semver.Compare: precedence, build metadata and spelling ignored.
Compare(a, b) ==
    IF a.Major # b.Major THEN (IF a.Major < b.Major THEN -1 ELSE 1)
    ELSE IF a.Minor # b.Minor THEN (IF a.Minor < b.Minor THEN -1 ELSE 1)
    ELSE IF a.Patch # b.Patch THEN (IF a.Patch < b.Patch THEN -1 ELSE 1)
    ELSE IF a.Prerelease = <<>> /\ b.Prerelease = <<>> THEN 0
    ELSE IF a.Prerelease = <<>> THEN 1
    ELSE IF b.Prerelease = <<>> THEN -1
    ELSE ComparePre(a.Prerelease, b.Prerelease, 1)

\* Semver.WithPre: the same version with the prerelease replaced.
WithPre(v, p) == [v EXCEPT !.Prerelease = p]

\* Semver.IsRelease: neither prerelease nor build metadata.
IsRelease(v) == v.Prerelease = <<>> /\ v.Build = 0

\* Semver.Canonical: vMAJOR.MINOR.PATCH[-PRERELEASE], build stripped.
Canonical(v) == Ver("v", <<v.Major, v.Minor, v.Patch>>, v.Prerelease, 0)

\* Semver.SemVer: MAJOR.MINOR.PATCH[-PRERELEASE][+BUILD], no prefix.
SemVer(v) == Ver("", <<v.Major, v.Minor, v.Patch>>, v.Prerelease, v.Build)

\* ------------------------------------------------------ regexes (part_005)

\* ^v?(0|[1-9]\d*)$ and its two- and three-segment forms: digits and dots
\* only, behind an optional lower-case v.
relX(t) ==
    t.kind = "ver" /\ t.pfx \in {"", "v"} /\ Len(t.segs) = 1 /\ t.pre = <<>> /\ t.build = 0

relXY(t) ==
    t.kind = "ver" /\ t.pfx \in {"", "v"} /\ Len(t.segs) = 2 /\ t.pre = <<>> /\ t.build = 0

relXYZ(t) ==
    t.kind = "ver" /\ t.pfx \in {"", "v"} /\ Len(t.segs) = 3 /\ t.pre = <<>> /\ t.build = 0

\* ------------------------------------------------------- range (range.go)

\* fmt.Sprintf("%d.%d.%d", ...) and its "-0" / "-<pre>.0" variants.
Sprintf3(maj, min, pat, pre) == Ver("", <<maj, min, pat>>, pre, 0)

classifyBound(s) ==
    IF relX(s) THEN [kind |-> 1, maj |-> s.segs[1], min |-> 0, pat |-> 0, ok |-> TRUE]
    ELSE IF relXY(s) THEN [kind |-> 2, maj |-> s.segs[1], min |-> s.segs[2], pat |-> 0, ok |-> TRUE]
    ELSE IF relXYZ(s)
         THEN [kind |-> 3, maj |-> s.segs[1], min |-> s.segs[2], pat |-> s.segs[3], ok |-> TRUE]
    ELSE [kind |-> 0, maj |-> 0, min |-> 0, pat |-> 0, ok |-> FALSE]

\* compileMin lowering the floor to the prerelease "-0" for a three-segment
\* Min as well.
compileMin_PreAtEveryFloor(raw, minExclusive, includePreAtFloor) ==
    LET c == classifyBound(raw) IN
    IF ~c.ok
    THEN LET v == Parse(raw) IN
         IF IsValid(v) THEN [v |-> v, excl |-> minExclusive, ok |-> TRUE]
         ELSE [v |-> ZeroSemver, excl |-> FALSE, ok |-> FALSE]
    ELSE [v |-> Parse(Sprintf3(c.maj, c.min, c.pat, IF includePreAtFloor THEN <<0>> ELSE <<>>)),
          excl |-> minExclusive, ok |-> TRUE]

\* compileMin reading an exclusive shorthand Min as the Max is read: the
\* whole series excluded, the floor at the start of the next one.
compileMin_ExclusiveDropsSeries(raw, minExclusive, includePreAtFloor) ==
    LET c == classifyBound(raw) IN
    IF ~c.ok
    THEN LET v == Parse(raw) IN
         IF IsValid(v) THEN [v |-> v, excl |-> minExclusive, ok |-> TRUE]
         ELSE [v |-> ZeroSemver, excl |-> FALSE, ok |-> FALSE]
    ELSE IF c.kind < 3 /\ minExclusive
    THEN [v |-> Parse(IF c.kind = 1 THEN Sprintf3(c.maj + 1, 0, 0, <<>>)
                      ELSE Sprintf3(c.maj, c.min + 1, 0, <<>>)),
          excl |-> FALSE, ok |-> TRUE]
    ELSE [v |-> Parse(Sprintf3(c.maj, c.min, c.pat,
                               IF includePreAtFloor /\ c.kind < 3 THEN <<0>> ELSE <<>>)),
          excl |-> minExclusive, ok |-> TRUE]

compileMin(raw, minExclusive, includePreAtFloor) ==
    LET c == classifyBound(raw) IN
    IF ~c.ok
    THEN LET v == Parse(raw) IN
         IF IsValid(v) THEN [v |-> v, excl |-> minExclusive, ok |-> TRUE]
         ELSE [v |-> ZeroSemver, excl |-> FALSE, ok |-> FALSE]
    ELSE LET core == CASE c.kind = 1 -> <<c.maj, 0, 0>>
                       [] c.kind = 2 -> <<c.maj, c.min, 0>>
                       [] OTHER -> <<c.maj, c.min, c.pat>>
             s == Sprintf3(core[1], core[2], core[3],
                           IF includePreAtFloor /\ c.kind < 3 THEN <<0>> ELSE <<>>)
             v == Parse(s)
         IN IF ~IsValid(v) THEN [v |-> ZeroSemver, excl |-> FALSE, ok |-> FALSE]
            ELSE [v |-> v, excl |-> minExclusive, ok |-> TRUE]

\* compileMaxExclusive with the inclusive ceiling at the next release rather
\* than at its smallest prerelease.
compileMaxExclusive_NextRelease(raw, maxExclusive) ==
    LET c == classifyBound(raw)
        v == Parse(raw)
    IN IF ~IsValid(v) THEN [v |-> ZeroSemver, ok |-> FALSE]
       ELSE IF ~c.ok
       THEN IF maxExclusive THEN [v |-> v, ok |-> TRUE]
            ELSE IF v.Prerelease # <<>>
            THEN [v |-> Parse(Sprintf3(v.Major, v.Minor, v.Patch, Append(v.Prerelease, 0))),
                  ok |-> TRUE]
            ELSE [v |-> Parse(Sprintf3(v.Major, v.Minor, v.Patch + 1, <<>>)), ok |-> TRUE]
       ELSE LET up == IF maxExclusive THEN 0 ELSE 1
                pre == IF maxExclusive THEN <<0>> ELSE <<>>
            IN [v |-> Parse(CASE c.kind = 1 -> Sprintf3(c.maj + up, 0, 0, pre)
                              [] c.kind = 2 -> Sprintf3(c.maj, c.min + up, 0, pre)
                              [] OTHER -> Sprintf3(c.maj, c.min, c.pat + up, pre)),
                ok |-> TRUE]

compileMaxExclusive(raw, maxExclusive) ==
    LET c == classifyBound(raw) IN
    IF ~c.ok
    THEN LET v == Parse(raw) IN
         IF ~IsValid(v) THEN [v |-> ZeroSemver, ok |-> FALSE]
         ELSE IF maxExclusive THEN [v |-> v, ok |-> TRUE]
         ELSE LET s == IF v.Prerelease # <<>>
                       THEN Sprintf3(v.Major, v.Minor, v.Patch, Append(v.Prerelease, 0))
                       ELSE Sprintf3(v.Major, v.Minor, v.Patch + 1, <<0>>)
                  nv == Parse(s)
              IN IF IsValid(nv) THEN [v |-> nv, ok |-> TRUE]
                 ELSE [v |-> ZeroSemver, ok |-> FALSE]
    ELSE LET s == CASE c.kind = 1 ->
                         Sprintf3(IF maxExclusive THEN c.maj ELSE c.maj + 1, 0, 0, <<0>>)
                    [] c.kind = 2 ->
                         Sprintf3(c.maj, IF maxExclusive THEN c.min ELSE c.min + 1, 0, <<0>>)
                    [] OTHER ->
                         Sprintf3(c.maj, c.min, IF maxExclusive THEN c.pat ELSE c.pat + 1, <<0>>)
             v == Parse(s)
         IN IF ~IsValid(v) THEN [v |-> ZeroSemver, ok |-> FALSE]
            ELSE [v |-> v, ok |-> TRUE]

\* clipBounds keeping a bound that failed to compile, as the zero version.
clipBounds_KeepsFailedBound(r) ==
    LET m == compileMin(r.Min, r.MinExclusive, r.IncludePrerelease)
        x == compileMaxExclusive(r.Max, r.MaxExclusive)
    IN [haveMin |-> r.Min # EmptyStr, minFloor |-> m.v, minIsExclusive |-> m.excl,
        haveMax |-> r.Max # EmptyStr, maxExclusive |-> x.v]

\* The bounds clipRange compiles before its loop.
clipBounds(r) ==
    LET m == IF r.Min # EmptyStr
             THEN compileMin(r.Min, r.MinExclusive, r.IncludePrerelease)
             ELSE [v |-> ZeroSemver, excl |-> FALSE, ok |-> FALSE]
        x == IF r.Max # EmptyStr
             THEN compileMaxExclusive(r.Max, r.MaxExclusive)
             ELSE [v |-> ZeroSemver, ok |-> FALSE]
    IN [haveMin |-> m.ok, minFloor |-> m.v, minIsExclusive |-> m.excl,
        haveMax |-> x.ok, maxExclusive |-> x.v]

\* clipSkips with the floor always inclusive.
clipSkips_FloorInclusive(v, b) ==
    \/ b.haveMin /\ Compare(v, b.minFloor) < 0
    \/ b.haveMax /\ Compare(v, b.maxExclusive) >= 0

\* One turn of clipRange's loop: TRUE when v is skipped (continue).
clipSkips(v, b) ==
    \/ /\ b.haveMin
       /\ LET cmp == Compare(v, b.minFloor) IN
          IF b.minIsExclusive THEN cmp <= 0 ELSE cmp < 0
    \/ /\ b.haveMax
       /\ Compare(v, b.maxExclusive) >= 0

RECURSIVE clipLoop(_, _, _, _)
clipLoop(vs, i, keep, b) ==
    IF i > Len(vs) THEN keep
    ELSE clipLoop(vs, i + 1, IF clipSkips(vs[i], b) THEN keep ELSE Append(keep, vs[i]), b)

clipRange(vs, r) == clipLoop(vs, 1, <<>>, clipBounds(r))

\* ----------------------------------------------------- range (part_010)

\* rec: a raw tag, its parsed version and its input position.
Rec(raw, ver, idx) == [raw |-> raw, ver |-> ver, idx |-> idx]

parseBound(s, includePre, isMax) ==
    IF s = EmptyStr THEN [v |-> ZeroSemver, ok |-> FALSE]
    ELSE LET v == Parse(s) IN
         IF ~IsValid(v) THEN [v |-> ZeroSemver, ok |-> FALSE]
         ELSE IF includePre /\ ~isMax /\ (~v.HasMinor \/ ~v.HasPatch)
              THEN [v |-> WithPre(v, <<0>>), ok |-> TRUE]
              ELSE [v |-> v, ok |-> TRUE]

\* One turn of applyRange's loop: TRUE when the record is skipped.
applySkips(v, r, minB, maxB) ==
    \/ /\ minB.ok
       /\ LET c == Compare(v, minB.v) IN c < 0 \/ (c = 0 /\ r.MinExclusive)
    \/ /\ maxB.ok
       /\ LET c == Compare(v, maxB.v) IN c > 0 \/ (c = 0 /\ r.MaxExclusive)

RECURSIVE applyLoop(_, _, _, _, _, _)
applyLoop(rs, i, keep, r, minB, maxB) ==
    IF i > Len(rs) THEN keep
    ELSE applyLoop(rs, i + 1,
                   IF applySkips(rs[i].ver, r, minB, maxB) THEN keep ELSE Append(keep, rs[i]),
                   r, minB, maxB)

applyRange(rs, r) ==
    IF Len(rs) = 0 THEN rs
    ELSE applyLoop(rs, 1, <<>>, r,
                   parseBound(r.Min, r.IncludePrerelease, FALSE),
                   parseBound(r.Max, r.IncludePrerelease, TRUE))

\* ------------------------------------------------------ finite maps

\* m with key k set to x (a Go map store).
Put(m, k, x) == [y \in DOMAIN m \cup {k} |-> IF y = k THEN x ELSE m[y]]

EmptyMap == [y \in {} |-> 0]

\* The orderings sort.Slice may leave: it is not stable, so every
\* arrangement of s that less(_, _) does not contradict is a possible result.
SortSliceResults(s, less(_, _)) ==
    LET n == Len(s)
        perms == {p \in [1..n -> 1..n] : \A i, j \in 1..n : i # j => p[i] # p[j]}
    IN {[i \in 1..n |-> s[p[i]]] :
           p \in {q \in perms : \A i, j \in 1..n : i < j => ~less(s[q[j]], s[q[i]])}}

\* The values of a map in the order of a list of its keys.
ValuesAt(m, keys) == [i \in 1..Len(keys) |-> m[keys[i]]]

\* The values of a map in some iteration order (Go leaves it unspecified).
MapValueOrders(m) ==
    LET ks == DOMAIN m
        n == Cardinality(ks)
    IN {ValuesAt(m, q) : q \in {p \in [1..n -> ks] : \A i, j \in 1..n : i # j => p[i] # p[j]}}

\* ----------------------------------------------------- dedup (filter.go)

semverKey(v) == <<v.Major, v.Minor, v.Patch, v.Prerelease>>

RECURSIVE dedupSemverLoop(_, _, _, _)
dedupSemverLoop(vs, i, seen, keep) ==
    IF i > Len(vs) THEN keep
    ELSE LET k == semverKey(vs[i]) IN
         IF k \in seen THEN dedupSemverLoop(vs, i + 1, seen, keep)
         ELSE dedupSemverLoop(vs, i + 1, seen \cup {k}, Append(keep, vs[i]))

deduplicateSemver(vs) == dedupSemverLoop(vs, 1, {}, <<>>)

\* ----------------------------------------------------- dedup (part_010)

\* dkey telling build metadata apart.
dkey_WithBuild(v) ==
    [maj |-> v.Major, min |-> v.Minor, pat |-> v.Patch, pre |-> v.Prerelease, build |-> v.Build]

dkey(v) == [maj |-> v.Major, min |-> v.Minor, pat |-> v.Patch, pre |-> v.Prerelease]

RECURSIVE dedupLoop(_, _, _, _)
dedupLoop(rs, i, seen, keep) ==
    IF i > Len(rs) THEN keep
    ELSE LET k == dkey(rs[i].ver) IN
         IF k \in seen THEN dedupLoop(rs, i + 1, seen, keep)
         ELSE dedupLoop(rs, i + 1, seen \cup {k}, Append(keep, rs[i]))

deduplicate(rs) == dedupLoop(rs, 1, {}, <<>>)

\* ----------------------------------------------- aggregation (filter.go)

\* The map key of latestPerMinor (depth "minor") / latestPerMajor ("major").
latestKey(v, depth) == IF depth = "minor" THEN <<v.Major, v.Minor>> ELSE v.Major

\* The best map of latestPerMinor / latestPerMajor after its first loop.
RECURSIVE latestBest(_, _, _, _)
latestBest(vs, i, best, depth) ==
    IF i > Len(vs) THEN best
    ELSE LET v == vs[i]
             k == latestKey(v, depth)
         IN latestBest(vs, i + 1,
                       IF k \notin DOMAIN best \/ Compare(v, best[k]) > 0
                       THEN Put(best, k, v) ELSE best,
                       depth)

\* latestSorted without the sort: the map's values as iterated.
latestSorted_MapOrder(best) == MapValueOrders(best)

\* sort.Slice(acc, func(i, j) { return acc[i].Compare(acc[j]) > 0 }) over the
\* map's values in iteration order: the set of possible results.
latestSorted(best) ==
    UNION {SortSliceResults(acc, LAMBDA a, b : Compare(a, b) > 0) : acc \in MapValueOrders(best)}

latestPerMinor(vs) ==
    latestSorted(latestBest(vs, 1, EmptyMap, "minor"))

latestPerMajor(vs) ==
    latestSorted(latestBest(vs, 1, EmptyMap, "major"))

\* ----------------------------------------------- aggregation (part_010)

\* A 64-bit word (Go's int on a 64-bit build, or a uint64) as four 16-bit
\* limbs, the most significant first; Int64(n) is the word of the integer n
\* in two's complement.
Int64(n) ==
    IF n >= 0 THEN <<0, 0, n \div 65536, n % 65536>>
    ELSE <<65535, 65535, (n \div 65536) % 65536, n % 65536>>

\* The uint64 key (uint64(maj) << 32) | uint64(minV & 0xffffffff): the shift
\* drops the upper 32 bits of maj, the mask those of minV; a negative field
\* (sign bit set) gives key 0.
pack(maj, minV) ==
    IF maj[1] >= 32768 \/ minV[1] >= 32768 THEN <<0, 0, 0, 0>>
    ELSE <<maj[3], maj[4], minV[3], minV[4]>>

\* replaces letting a later record of equal precedence win.
replaces_LastAmongEquals(r, b) == Compare(r.ver, b.ver) >= 0

\* Whether record r takes the place of the group's current best b.
replaces(r, b) ==
    LET c == Compare(r.ver, b.ver) IN c > 0 \/ (c = 0 /\ r.idx < b.idx)

\* The map key of aggregateMinor (depth "minor") / aggregateMajor ("major").
aggregateKey(v, depth) ==
    IF depth = "minor" THEN pack(Int64(v.Major), Int64(v.Minor)) ELSE v.Major

\* The by map and the order list after the loop of aggregateMinor / aggregateMajor.
RECURSIVE aggregateLoop(_, _, _, _, _)
aggregateLoop(rs, i, by, order, depth) ==
    IF i > Len(rs) THEN [by |-> by, order |-> order]
    ELSE LET r == rs[i]
             k == aggregateKey(r.ver, depth)
         IN IF k \in DOMAIN by
            THEN aggregateLoop(rs, i + 1, IF replaces(r, by[k]) THEN Put(by, k, r) ELSE by,
                               order, depth)
            ELSE aggregateLoop(rs, i + 1, Put(by, k, r), Append(order, k), depth)

\* aggregateMinor emitting the groups latest-seen first.
aggregateMinor_LatestSeenFirst(rs) ==
    LET a == aggregateLoop(rs, 1, EmptyMap, <<>>, "minor")
        n == Len(a.order)
    IN [i \in 1..n |-> a.by[a.order[n + 1 - i]]]

aggregateMinor(rs) ==
    LET a == aggregateLoop(rs, 1, EmptyMap, <<>>, "minor")
    IN ValuesAt(a.by, a.order)

aggregateMajor(rs) ==
    LET a == aggregateLoop(rs, 1, EmptyMap, <<>>, "major")
    IN ValuesAt(a.by, a.order)

\* --------------------------------------------------------------- options

\* Range{}: no bounds.
NoRange ==
    [Min |-> EmptyStr, Max |-> EmptyStr, MinExclusive |-> FALSE, MaxExclusive |-> FALSE,
     IncludePrerelease |-> FALSE]

Enabled(r) == r.Min # EmptyStr \/ r.Max # EmptyStr

\* Options{}: the zero value.  Format is the set of allowed release forms
\* (the bits of the mask), Include / Exclude name a pattern or "nil".
ZeroOptions ==
    [FilterSemver |-> FALSE, ReleaseOnly |-> FALSE, Deduplicate |-> FALSE,
     OutputCanonical |-> FALSE, OutputSemVer |-> FALSE, ExcludeSignatures |-> FALSE,
     Include |-> "nil", Exclude |-> "nil", Depth |-> "patch", Format |-> {},
     Sort |-> "none", VPrefix |-> "any", Range |-> NoRange, Limit |-> 0]

\* ------------------------------------------------------- parsing helpers

\* Every tag parsed, with Original set (the Filter generation's vers).
ParsedOf(ts) == [i \in 1..Len(ts) |-> Parse(ts[i])]

\* parseAll (part_010): every tag as a rec with its input position.
parseAll(ts) == [i \in 1..Len(ts) |-> Rec(ts[i], Parse(ts[i]), i - 1)]

Originals(vs) == [i \in 1..Len(vs) |-> vs[i].Original]

Raws(rs) == [i \in 1..Len(rs) |-> rs[i].raw]

\* ------------------------------------------------------------- sorting

\* The result of sort.SliceStable: sorted by less, ties in their old order.
SliceStableResult(s, less(_, _)) ==
    LET n == Len(s)
        p == CHOOSE q \in [1..n -> 1..n] :
                 /\ \A i, j \in 1..n : i # j => q[i] # q[j]
                 /\ \A i, j \in 1..n :
                        i < j => /\ ~less(s[q[j]], s[q[i]])
                                 /\ (~less(s[q[i]], s[q[j]]) => q[i] < q[j])
    IN [i \in 1..n |-> s[p[i]]]

\* ------------------------------------------------------ utils (utils.go)

\* Variant of capStrings that never cuts.
capStrings_NoCap(o, limit) == o

\* Variant of capStrings that cuts one element late.
capStrings_OneLate(o, limit) ==
    IF limit > 0 /\ limit + 1 < Len(o) THEN SubSeq(o, 1, limit + 1) ELSE o

capStrings(o, limit) == IF limit > 0 /\ limit < Len(o) THEN SubSeq(o, 1, limit) ELSE o

isSigTag(t) == t.kind = "sig"

\* regexp MatchString for the patterns an Include / Exclude may name:
\* "^v" (a leading lower-case v) and "-rc" (the text -rc anywhere).
MatchString(re, t) ==
    CASE re = "^v" -> Len(Bytes(t)) > 0 /\ Bytes(t)[1] = 118
      [] OTHER -> \E i \in 1..(Len(Bytes(t)) - 2) :
                      Bytes(t)[i] = 45 /\ Bytes(t)[i + 1] = 114 /\ Bytes(t)[i + 2] = 99

\* ------------------------------------------------ normalized (part_009)

normalized(o) ==
    LET o1 == IF o.ReleaseOnly /\ ~o.FilterSemver THEN [o EXCEPT !.FilterSemver = TRUE] ELSE o
    IN IF o1.ReleaseOnly /\ o1.Format = {} THEN [o1 EXCEPT !.Format = {"XYZ"}] ELSE o1

\* ------------------------------------------------------ Filter (filter.go)

hasLeadingV(t) == Len(Bytes(t)) > 0 /\ Bytes(t)[1] \in {118, 86}

prefilterTag(t, o) ==
    /\ o.VPrefix = "v" => hasLeadingV(t)
    /\ o.VPrefix = "none" => ~hasLeadingV(t)
    /\ ~(o.ExcludeSignatures /\ isSigTag(t))
    /\ o.Include # "nil" => MatchString(o.Include, t)
    /\ o.Exclude # "nil" => ~MatchString(o.Exclude, t)

formatAllowed(v, mask) ==
    IF v.HasPatch THEN "XYZ" \in mask
    ELSE IF v.HasMinor THEN "XY" \in mask
    ELSE "X" \in mask

parseCandidate(t, o) ==
    LET v == Parse(t) IN
    IF ~IsValid(v) THEN [v |-> ZeroSemver, ok |-> FALSE]
    ELSE IF ~o.FilterSemver /\ ~o.ReleaseOnly THEN [v |-> v, ok |-> TRUE]
    ELSE IF o.ReleaseOnly /\ (~IsRelease(v) \/ ~formatAllowed(v, o.Format))
    THEN [v |-> ZeroSemver, ok |-> FALSE]
    ELSE [v |-> v, ok |-> TRUE]

\* Variant of pick that renders canonically whatever the flag.
pick_AlwaysCanonical(v, canonical) == Canonical(v)

pick(v, canonical) == IF canonical THEN Canonical(v) ELSE v.Original

projectOut(vs, canonical) == [i \in 1..Len(vs) |-> pick(vs[i], canonical)]

\* Variant of latestLoop in which a later version of equal precedence replaces
\* the current best.
RECURSIVE latestLoop_LastAmongEquals(_, _, _)
latestLoop_LastAmongEquals(vs, i, best) ==
    IF i > Len(vs) THEN best
    ELSE latestLoop_LastAmongEquals(vs, i + 1,
                                    IF Compare(vs[i], best) >= 0 THEN vs[i] ELSE best)

\* The DepthLatest loop of Filter: the first version no later one exceeds.
RECURSIVE latestLoop(_, _, _)
latestLoop(vs, i, best) ==
    IF i > Len(vs) THEN best
    ELSE latestLoop(vs, i + 1, IF Compare(vs[i], best) > 0 THEN vs[i] ELSE best)

\* Filter's parse loop: the tags that pass prefilterTag and parseCandidate,
\* parsed, each with Original set to its tag.
filterParse(in, o) ==
    LET cand == SelectSeq(in, LAMBDA t : prefilterTag(t, o) /\ parseCandidate(t, o).ok)
    IN [i \in 1..Len(cand) |-> [parseCandidate(cand[i], o).v EXCEPT !.Original = cand[i]]]

\* Filter's range clipping step.
filterClip(vers, o) == IF Enabled(o.Range) THEN clipRange(vers, o.Range) ELSE vers

\* Filter's alias deduplication step.
filterDedup(vers, o) ==
    IF o.Deduplicate \/ o.OutputCanonical THEN deduplicateSemver(vers) ELSE vers

\* Filter's depth switch: the set of lists it may return.
filterDepth(vers, o) ==
    CASE o.Depth = "minor" ->
           {capStrings(projectOut(acc, o.OutputCanonical), o.Limit) : acc \in latestPerMinor(vers)}
      [] o.Depth = "major" ->
           {capStrings(projectOut(acc, o.OutputCanonical), o.Limit) : acc \in latestPerMajor(vers)}
      [] o.Depth = "latest" ->
           IF Len(vers) = 0 THEN {<<>>}
           ELSE {capStrings(<<pick(latestLoop(vers, 2, vers[1]), o.OutputCanonical)>>, o.Limit)}
      [] OTHER -> {capStrings(projectOut(vers, o.OutputCanonical), o.Limit)}

\* Filter with normalized options.
filterNormalized(in, o) ==
    IF ~o.FilterSemver /\ ~o.ReleaseOnly
    THEN {capStrings(SelectSeq(in, LAMBDA t : prefilterTag(t, o)), o.Limit)}
    ELSE filterDepth(filterDedup(filterClip(filterParse(in, o), o), o), o)

\* Filter: the set of lists it may return (one, unless a sort.Slice inside
\* the aggregation leaves the order open).
Filter(in, opt0) == filterNormalized(in, normalized(opt0))

\* ------------------------------------- normalizeShorthand (normalize.go)

\* strings.TrimPrefix(tag, "v"): one leading lower-case v taken off.
TrimPrefixV(tag) ==
    IF tag.kind = "ver" /\ tag.pfx = "v" THEN [tag EXCEPT !.pfx = ""]
    ELSE IF tag.kind = "junk" /\ tag.word = 3 THEN Junk(4)
    ELSE tag

\* Variant of normalizeShorthand that fills a single segment only.
normalizeShorthand_OneZero(tag) ==
    IF relXY(tag) \/ relX(tag)
    THEN [TrimPrefixV(tag) EXCEPT !.segs = TrimPrefixV(tag).segs \o <<0>>]
    ELSE TrimPrefixV(tag)

normalizeShorthand(tag) ==
    IF relXYZ(tag) THEN TrimPrefixV(tag)
    ELSE IF relXY(tag) THEN [TrimPrefixV(tag) EXCEPT !.segs = TrimPrefixV(tag).segs \o <<0>>]
    ELSE IF relX(tag) THEN [TrimPrefixV(tag) EXCEPT !.segs = TrimPrefixV(tag).segs \o <<0, 0>>]
    ELSE TrimPrefixV(tag)

\* ------------------------------------ Filter (rats_bench_test.go, older)

\* matchFormat: no '-' or '+' anywhere in the tag, and one of the allowed
\* release shapes.
matchFormat(tag, forms) ==
    /\ \A i \in 1..Len(Bytes(tag)) : Bytes(tag)[i] \notin {45, 43}
    /\ \/ "XYZ" \in forms /\ relXYZ(tag)
       \/ "XY" \in forms /\ relXY(tag)
       \/ "X" \in forms /\ relX(tag)

\* parseCandidate of the older Filter: in ReleaseOnly mode the shape is
\* matched on the text and the normalized text is parsed; otherwise the tag
\* is parsed as it is.
parseCandidate_bench(t, o) ==
    IF o.ReleaseOnly
    THEN IF ~matchFormat(t, o.Format) THEN [v |-> ZeroSemver, ok |-> FALSE]
         ELSE LET v == Parse(normalizeShorthand(t)) IN
              IF ~IsValid(v) \/ v.Prerelease # <<>> \/ v.Build # 0
              THEN [v |-> ZeroSemver, ok |-> FALSE]
              ELSE [v |-> v, ok |-> TRUE]
    ELSE [v |-> Parse(t), ok |-> IsValid(Parse(t))]

\* The older parse loop. Its prefilterTag differs from filter.go's only in the
\* StrictSemver check (off here) and in matching signatures by sigRe.
filterParse_bench(in, o) ==
    LET cand == SelectSeq(in, LAMBDA t : prefilterTag(t, o) /\ parseCandidate_bench(t, o).ok)
    IN [i \in 1..Len(cand) |-> [parseCandidate_bench(cand[i], o).v EXCEPT !.Original = cand[i]]]

filterNormalized_bench(in, o) ==
    IF ~o.FilterSemver /\ ~o.ReleaseOnly
    THEN {capStrings(SelectSeq(in, LAMBDA t : prefilterTag(t, o)), o.Limit)}
    ELSE filterDepth(filterDedup(filterClip(filterParse_bench(in, o), o), o), o)

\* The older Filter: the set of lists it may return.
Filter_bench(in, opt0) == filterNormalized_bench(in, normalized(opt0))

\* ---------------------------------------------------------- Sort (sort.go)

\* Variant of sortLex that sorts ascending whatever the mode.
sortLex_AlwaysAscending(in, mode) == SortSliceResults(in, StrLess)

\* sort.Strings / sort.Sort(sort.Reverse(...)) on a copy.
sortLex(in, mode) ==
    IF mode = "asc" THEN SortSliceResults(in, StrLess)
    ELSE SortSliceResults(in, LAMBDA a, b : StrLess(b, a))

\* Sort: the set of lists it may return (sort.Slice is not stable).
Sort(in, mode, normalizeShorthand_) ==
    IF mode = "none" \/ Len(in) < 2 THEN {in}
    ELSE LET arr == [i \in 1..Len(in) |->
                        [v |-> Parse(IF normalizeShorthand_ THEN normalizeShorthand(in[i])
                                     ELSE in[i]),
                         orig |-> in[i]]]
         IN IF \E i \in 1..Len(arr) : ~IsValid(arr[i].v)
            THEN sortLex(in, mode)
            ELSE {[i \in 1..Len(r) |-> r[i].orig] :
                     r \in SortSliceResults(arr, LAMBDA a, b :
                              IF mode = "asc" THEN Compare(a.v, b.v) < 0
                              ELSE Compare(a.v, b.v) > 0)}

\* -------------------------------------------------------- Select (api.go)

Select_api(in, o) ==
    UNION {IF o.Sort # "none" THEN Sort(f, o.Sort, o.ReleaseOnly) ELSE {f} : f \in Filter(in, o)}

\* ------------------------------------------------------ Select (part_001)

Select_part_001(in, o) ==
    LET optNoLimit == [o EXCEPT !.Limit = 0]
        sorted == UNION {IF o.Sort # "none" THEN Sort(f, o.Sort, o.ReleaseOnly) ELSE {f} :
                            f \in Filter(in, optNoLimit)}
    IN {capStrings(r, o.Limit) : r \in sorted}

\* ------------------------------------------- Select pipeline (part_010)

\* Variant of acceptVPrefix that lets the empty tag through in every mode.
acceptVPrefix_EmptyPasses(t, mode) ==
    IF Len(Bytes(t)) = 0 THEN TRUE
    ELSE LET hasV == Bytes(t)[1] \in {118, 86} IN
         CASE mode = "v" -> hasV
           [] mode = "none" -> ~hasV
           [] OTHER -> TRUE

acceptVPrefix(t, mode) ==
    IF Len(Bytes(t)) = 0 THEN mode # "v"
    ELSE LET hasV == Bytes(t)[1] \in {118, 86} IN
         CASE mode = "v" -> hasV
           [] mode = "none" -> ~hasV
           [] OTHER -> TRUE

preFilterRaw(in, o) ==
    SelectSeq(in, LAMBDA t :
        /\ acceptVPrefix(t, o.VPrefix)
        /\ o.Include # "nil" => MatchString(o.Include, t)
        /\ o.Exclude # "nil" => ~MatchString(o.Exclude, t)
        /\ ~(o.ExcludeSignatures /\ isSigTag(t)))

\* splitSemver: the valid records, and the raw text of the others.
splitSemver(rs) ==
    [sem |-> SelectSeq(rs, LAMBDA r : r.ver.Valid),
     other |-> Raws(SelectSeq(rs, LAMBDA r : ~r.ver.Valid))]

sortStrings(in, asc) ==
    IF Len(in) < 2 THEN in
    ELSE SliceStableResult(in, LAMBDA a, b : IF asc THEN StrLess(a, b) ELSE StrLess(b, a))

stringOnlyPipeline(in, o) ==
    CASE o.Sort = "asc" -> sortStrings(in, TRUE)
      [] o.Sort = "desc" -> sortStrings(in, FALSE)
      [] OTHER -> in

\* Variant of formFromFlags that reports every version as X.Y.Z.
formFromFlags_AlwaysXYZ(v) == {"XYZ"}

formFromFlags(v) ==
    IF v.HasMinor /\ v.HasPatch THEN {"XYZ"}
    ELSE IF v.HasMinor THEN {"XY"}
    ELSE IF ~v.HasPatch THEN {"X"}
    ELSE {"XYZ", "XY", "X"}

filterReleaseOnly(in, fm) ==
    SelectSeq(in, LAMBDA r :
        /\ r.ver.Prerelease = <<>>
        /\ r.ver.Build = 0
        /\ fm # {} => formFromFlags(r.ver) \cap fm # {})

\* aggregateLatest's loop: the best record, the earliest among equals.
RECURSIVE aggregateLatestLoop(_, _, _)
aggregateLatestLoop(in, i, best) ==
    IF i > Len(in) THEN best
    ELSE aggregateLatestLoop(in, i + 1, IF replaces(in[i], best) THEN in[i] ELSE best)

aggregateLatest(in) ==
    IF Len(in) = 0 THEN in ELSE <<aggregateLatestLoop(in, 2, in[1])>>

sortSemver(in, asc) ==
    IF Len(in) < 2 THEN in
    ELSE SliceStableResult(in, LAMBDA a, b :
             LET c == Compare(a.ver, b.ver) IN
             IF c = 0
             THEN IF a.raw # b.raw
                  THEN (IF asc THEN StrLess(a.raw, b.raw) ELSE StrLess(b.raw, a.raw))
                  ELSE a.idx < b.idx
             ELSE IF asc THEN c < 0 ELSE c > 0)

\* ---------------------------------------------------------- Select (rats.go)

\* Select's semver gate: the records kept, and the other tags kept.
selectGate(split, o) ==
    [sem |-> IF o.Format # {} THEN filterReleaseOnly(split.sem, o.Format) ELSE split.sem,
     other |-> IF o.Format # {} \/ o.FilterSemver THEN <<>> ELSE split.other]

\* Variant of selectRange that clips the tops of the minor groups only.
selectRange_AfterAggregation(sem, o) ==
    IF Enabled(o.Range) /\ Len(sem) > 0 THEN applyRange(aggregateMinor(sem), o.Range) ELSE sem

\* Select's range step.
selectRange(sem, o) ==
    IF Enabled(o.Range) /\ Len(sem) > 0 THEN applyRange(sem, o.Range) ELSE sem

\* Select's dedup step.
selectDedup(sem, o) == IF o.Deduplicate /\ Len(sem) > 0 THEN deduplicate(sem) ELSE sem

\* Select's depth switch.
selectDepth(sem, o) ==
    CASE Len(sem) > 0 /\ o.Depth = "minor" -> aggregateMinor(sem)
      [] Len(sem) > 0 /\ o.Depth = "major" -> aggregateMajor(sem)
      [] Len(sem) > 0 /\ o.Depth = "latest" -> aggregateLatest(sem)
      [] OTHER -> sem

\* Variant of selectSortSem that sorts ascending even under SortNone.
selectSortSem_SortsUnderNone(sem, o) == sortSemver(sem, o.Sort # "desc")

\* Select's sort switch, on the records and on the other tags.
selectSortSem(sem, o) ==
    IF o.Sort = "none" THEN sem ELSE sortSemver(sem, o.Sort = "asc")

selectSortOther(other, o) ==
    IF o.Sort = "none" THEN other ELSE sortStrings(other, o.Sort = "asc")

\* Select's rendering of the records.
selectRender(sem, o) ==
    [i \in 1..Len(sem) |->
        IF o.OutputCanonical THEN Canonical(sem[i].ver)
        ELSE IF o.OutputSemVer THEN SemVer(sem[i].ver)
        ELSE sem[i].raw]

\* Select's semver pipeline, from the gate to the limit.
selectSemver(g, o) ==
    capStrings(selectRender(selectSortSem(selectDepth(selectDedup(selectRange(g.sem, o), o), o), o), o)
               \o selectSortOther(g.other, o),
               o.Limit)

\* Select from the prefiltered tags on.
selectRaw(raw, o) ==
    IF Len(raw) = 0 THEN <<>>
    ELSE IF \A i \in 1..Len(raw) : ~Parse(raw[i]).Valid
    THEN IF o.FilterSemver THEN <<>> ELSE capStrings(stringOnlyPipeline(raw, o), o.Limit)
    ELSE selectSemver(selectGate(splitSemver(parseAll(raw)), o), o)

selectNormalized(in, o) == selectRaw(preFilterRaw(in, o), o)

Select(in, opt0) == selectNormalized(in, normalized(opt0))

\* ============================================================ range spec

\* Versions around the bounds 1, 1.2 and 1.2.3.
RangeVers ==
    { Ver("", <<0, 9, 0>>, <<>>, 0),
      Ver("", <<1, 0, 0>>, <<0>>, 0),
      Ver("", <<1, 1, 9>>, <<>>, 0),
      Ver("", <<1, 2, 0>>, <<100>>, 0),
      Ver("", <<1, 2, 0>>, <<>>, 0),
      Ver("", <<1, 2, 3>>, <<102>>, 0),
      Ver("", <<1, 2, 3>>, <<102, 0>>, 0),
      Ver("", <<1, 2, 3>>, <<>>, 0),
      Ver("v", <<1, 2, 3>>, <<>>, 1),
      Ver("", <<1, 2, 4>>, <<0>>, 0),
      Ver("", <<1, 2, 9>>, <<>>, 0),
      Ver("", <<1, 3, 0>>, <<102>>, 0),
      Ver("", <<1, 3, 0>>, <<>>, 0),
      Ver("", <<2, 0, 0>>, <<0>>, 0) }

\* Bound texts: shorthands, full versions, and two that do not parse.
BoundRaws ==
    { Ver("", <<1>>, <<>>, 0),
      Ver("v", <<1, 2>>, <<>>, 0),
      Ver("", <<1, 2, 3>>, <<>>, 0),
      Ver("", <<1, 2, 3>>, <<102>>, 0),
      Ver("", <<1, 2, 3>>, <<>>, 1),
      Junk(1),
      Ver("", <<1, 2, 3, 4>>, <<>>, 0) }

RangeConfigs ==
    { [Min |-> m, Max |-> EmptyStr, MinExclusive |-> me, MaxExclusive |-> FALSE,
       IncludePrerelease |-> ip] : m \in BoundRaws, me \in BOOLEAN, ip \in BOOLEAN }
    \cup
    { [Min |-> EmptyStr, Max |-> x, MinExclusive |-> FALSE, MaxExclusive |-> xe,
       IncludePrerelease |-> ip] : x \in BoundRaws, xe \in BOOLEAN, ip \in BOOLEAN }
    \cup
    { [Min |-> m, Max |-> x, MinExclusive |-> me, MaxExclusive |-> xe,
       IncludePrerelease |-> FALSE] :
         m \in {Ver("v", <<1, 2>>, <<>>, 0), Junk(1)},
         x \in {Ver("", <<1, 2, 3>>, <<>>, 0), Junk(1)},
         me \in BOOLEAN, xe \in BOOLEAN }

NoInfo == [haveMin |-> FALSE, haveMax |-> FALSE]

RangeInit ==
    /\ op = "init"
    /\ tags \in SeqsUpTo(RangeVers, MaxRangeLen)
    /\ opt \in {[ZeroOptions EXCEPT !.Range = r] : r \in RangeConfigs}
    /\ out = <<>>
    /\ info = NoInfo

\* Filter's range stage: clipRange over the parsed versions.
ClipRange ==
    /\ op = "init"
    /\ op' = "clipRange"
    /\ out' = Originals(clipRange(ParsedOf(tags), opt.Range))
    /\ info' = [haveMin |-> clipBounds(opt.Range).haveMin,
                haveMax |-> clipBounds(opt.Range).haveMax]
    /\ UNCHANGED <<tags, opt>>

\* Select's range stage: applyRange over the parsed records.
ApplyRange ==
    /\ op = "init"
    /\ op' = "applyRange"
    /\ out' = Raws(applyRange(parseAll(tags), opt.Range))
    /\ info' = [haveMin |-> parseBound(opt.Range.Min, opt.Range.IncludePrerelease, FALSE).ok,
                haveMax |-> parseBound(opt.Range.Max, opt.Range.IncludePrerelease, TRUE).ok]
    /\ UNCHANGED <<tags, opt>>

RangeNext == ClipRange \/ ApplyRange

RangeSpec == RangeInit /\ [][RangeNext]_vars

\* ======================================================= stage spec

\* Versions with aliases (shorthand, prefix, build) in three minor series.
StageVers ==
    { Ver("", <<1, 0, 0>>, <<>>, 0),
      Ver("", <<1, 0, 1>>, <<>>, 0),
      Ver("", <<1, 1, 0>>, <<>>, 0),
      Ver("v", <<1, 1>>, <<>>, 0),
      Ver("", <<1, 1, 0>>, <<>>, 1),
      Ver("", <<1, 1, 0>>, <<102>>, 0),
      Ver("v", <<1, 1, 0>>, <<102>>, 2),
      Ver("", <<2, 0, 0>>, <<100>>, 0),
      Ver("", <<2, 0, 0>>, <<>>, 0) }

StageInit ==
    /\ op = "init"
    /\ tags \in SeqsUpTo(StageVers, MaxLen)
    /\ opt = ZeroOptions
    /\ out = <<>>
    /\ info = NoInfo

DeduplicateSemver ==
    /\ op = "init"
    /\ op' = "deduplicateSemver"
    /\ out' = Originals(deduplicateSemver(ParsedOf(tags)))
    /\ UNCHANGED <<tags, opt, info>>

Deduplicate ==
    /\ op = "init"
    /\ op' = "deduplicate"
    /\ out' = Raws(deduplicate(parseAll(tags)))
    /\ UNCHANGED <<tags, opt, info>>

LatestPerMinor ==
    /\ op = "init"
    /\ op' = "latestPerMinor"
    /\ \E acc \in latestPerMinor(ParsedOf(tags)) : out' = Originals(acc)
    /\ UNCHANGED <<tags, opt, info>>

LatestPerMajor ==
    /\ op = "init"
    /\ op' = "latestPerMajor"
    /\ \E acc \in latestPerMajor(ParsedOf(tags)) : out' = Originals(acc)
    /\ UNCHANGED <<tags, opt, info>>

AggregateMinor ==
    /\ op = "init"
    /\ op' = "aggregateMinor"
    /\ out' = Raws(aggregateMinor(parseAll(tags)))
    /\ UNCHANGED <<tags, opt, info>>

AggregateMajor ==
    /\ op = "init"
    /\ op' = "aggregateMajor"
    /\ out' = Raws(aggregateMajor(parseAll(tags)))
    /\ UNCHANGED <<tags, opt, info>>

AggregateLatest ==
    /\ op = "init"
    /\ op' = "aggregateLatest"
    /\ out' = Raws(aggregateLatest(parseAll(tags)))
    /\ UNCHANGED <<tags, opt, info>>

\* The DepthLatest branch of Filter's depth switch on the parsed tags.
FilterLatest ==
    /\ op = "init"
    /\ op' = "filterLatest"
    /\ out' \in filterDepth(ParsedOf(tags), [ZeroOptions EXCEPT !.Depth = "latest"])
    /\ UNCHANGED <<tags, opt, info>>

StageNext ==
    \/ DeduplicateSemver
    \/ Deduplicate
    \/ LatestPerMinor
    \/ LatestPerMajor
    \/ AggregateMinor
    \/ AggregateMajor
    \/ AggregateLatest
    \/ FilterLatest

StageSpec == StageInit /\ [][StageNext]_vars

\* ====================================================== select spec

\* Three releases, a prefixed shorthand alias, a prerelease and a word.
SelectTags ==
    { Ver("", <<1, 0, 0>>, <<>>, 0),
      Ver("", <<2, 0, 0>>, <<>>, 0),
      Ver("", <<1, 5, 0>>, <<>>, 0),
      Ver("v", <<1, 5>>, <<>>, 0),
      Ver("", <<1, 5, 0>>, <<102>>, 0),
      Junk(1) }

FormatAll == {"XYZ", "XY", "X"}

SelectConfigs ==
    { [ZeroOptions EXCEPT !.FilterSemver = fs, !.Sort = s, !.Limit = n, !.Depth = d] :
         fs \in BOOLEAN, s \in {"none", "asc", "desc"}, n \in {0, MaxLimit},
         d \in {"patch", "minor", "major", "latest"} }
    \cup
    { [ZeroOptions EXCEPT !.ReleaseOnly = TRUE, !.Format = f, !.Sort = "desc", !.Limit = n,
                          !.Deduplicate = dd] :
         f \in {{}, FormatAll}, n \in {0, 1}, dd \in BOOLEAN }

SelectInit ==
    /\ op = "init"
    /\ tags \in SeqsUpTo(SelectTags, MaxSelectLen)
    /\ opt \in SelectConfigs
    /\ out = <<>>
    /\ info = NoInfo

DoFilter ==
    /\ op = "init"
    /\ op' = "Filter"
    /\ out' \in Filter(tags, opt)
    /\ UNCHANGED <<tags, opt, info>>

DoSelectApi ==
    /\ op = "init"
    /\ op' = "Select_api"
    /\ out' \in Select_api(tags, opt)
    /\ UNCHANGED <<tags, opt, info>>

DoSelectPart001 ==
    /\ op = "init"
    /\ op' = "Select_part_001"
    /\ out' \in Select_part_001(tags, opt)
    /\ UNCHANGED <<tags, opt, info>>

DoSelect ==
    /\ op = "init"
    /\ op' = "Select"
    /\ out' = Select(tags, opt)
    /\ UNCHANGED <<tags, opt, info>>

DoFilterBench ==
    /\ op = "init"
    /\ op' = "Filter_bench"
    /\ out' \in Filter_bench(tags, opt)
    /\ UNCHANGED <<tags, opt, info>>

SelectNext ==
    \/ DoFilter
    \/ DoFilterBench
    \/ DoSelectApi
    \/ DoSelectPart001
    \/ DoSelect

SelectSpec == SelectInit /\ [][SelectNext]_vars

\* ------------------------------------------------------------ SortSpec

\* Tags to sort: three spellings of one precedence (1.0.0, 1.0.0+b1, v1.0),
\* a prerelease, a later release and two tags that are not versions.
SortTags ==
    { Ver("", <<1, 0, 0>>, <<>>, 0),
      Ver("", <<1, 0, 0>>, <<>>, 1),
      Ver("v", <<1, 0>>, <<>>, 0),
      Ver("", <<1, 5, 0>>, <<102>>, 0),
      Ver("", <<2, 0, 0>>, <<>>, 0),
      Junk(1),
      Junk(2) }

SortInit ==
    /\ op = "init"
    /\ tags \in SeqsUpTo(SortTags, MaxLen)
    /\ opt \in {[ZeroOptions EXCEPT !.Sort = s] : s \in {"none", "asc", "desc"}}
    /\ out = <<>>
    /\ info \in {[normalizeShorthand |-> b] : b \in BOOLEAN}

DoSort ==
    /\ op = "init"
    /\ op' = "Sort"
    /\ out' \in Sort(tags, opt.Sort, info.normalizeShorthand)
    /\ UNCHANGED <<tags, opt, info>>

\* sortSemver as Select calls it: on version records, under SortAsc or SortDesc.
SortSemver ==
    /\ op = "init"
    /\ opt.Sort # "none"
    /\ \A i \in 1..Len(tags) : IsValid(Parse(tags[i]))
    /\ op' = "sortSemver"
    /\ out' = Raws(sortSemver(parseAll(tags), opt.Sort = "asc"))
    /\ UNCHANGED <<tags, opt, info>>

\* sortStrings as Select and stringOnlyPipeline call it.
SortStrings ==
    /\ op = "init"
    /\ opt.Sort # "none"
    /\ op' = "sortStrings"
    /\ out' = sortStrings(tags, opt.Sort = "asc")
    /\ UNCHANGED <<tags, opt, info>>

\* Select (rats.go) with every option but Sort at its zero value.
SortingSelect ==
    /\ op = "init"
    /\ op' = "Select"
    /\ out' = Select(tags, opt)
    /\ UNCHANGED <<tags, opt, info>>

SortNext ==
    \/ DoSort
    \/ SortSemver
    \/ SortStrings
    \/ SortingSelect

SortSpec == SortInit /\ [][SortNext]_vars

\* ------------------------------------------------------------ GateSpec

\* Tags of every shape the gates tell apart: X.Y.Z, X.Y with a leading v,
\* X, a prerelease, a release with build metadata, and a non-version.
GateTags ==
    { Ver("", <<1, 0, 0>>, <<>>, 0),
      Ver("v", <<1, 0>>, <<>>, 0),
      Ver("", <<2>>, <<>>, 0),
      Ver("", <<1, 0, 0>>, <<102>>, 0),
      Ver("", <<2, 0, 0>>, <<>>, 1),
      Junk(1) }

FormatMasks == {{}, {"XYZ"}, {"XY"}, {"X"}, FormatAll}

GateConfigs ==
    { [ZeroOptions EXCEPT !.FilterSemver = fs, !.ReleaseOnly = ro, !.Format = f,
                          !.Sort = s, !.Limit = n] :
         fs \in BOOLEAN, ro \in BOOLEAN, f \in FormatMasks, s \in {"none", "desc"},
         n \in {0, 1} }

GateInit ==
    /\ op = "init"
    /\ tags \in SeqsUpTo(GateTags, MaxLen)
    /\ opt \in GateConfigs
    /\ out = <<>>
    /\ info = NoInfo

\* The operations of SelectSpec, started from the gate configurations.
GateSpec == GateInit /\ [][SelectNext]_vars

\* -------------------------------------------------------- PrefilterSpec

\* Tags the raw gates tell apart: with and without a leading v or V, the
\* empty tag, a signature tag, an rc prerelease, and two non-versions, one
\* of which starts with v.
PrefilterTags ==
    { Ver("", <<1, 0, 0>>, <<>>, 0),
      Ver("v", <<1, 0, 0>>, <<>>, 0),
      Ver("V", <<1, 0, 0>>, <<>>, 0),
      Ver("", <<1, 0, 0>>, <<102>>, 0),
      EmptyStr,
      SigTag,
      Junk(1),
      Junk(3) }

\* Settings of the stages behind the gate: none, each of two alone, and
\* Range, Deduplicate, Depth and OutputCanonical together.
PipelineVariants ==
    { ZeroOptions,
      [ZeroOptions EXCEPT !.Depth = "latest"],
      [ZeroOptions EXCEPT !.OutputCanonical = TRUE],
      [ZeroOptions EXCEPT !.Range = [NoRange EXCEPT !.Min = Ver("", <<2>>, <<>>, 0)],
                          !.Deduplicate = TRUE, !.Depth = "minor",
                          !.OutputCanonical = TRUE] }

PrefilterConfigs ==
    { [p EXCEPT !.VPrefix = vp, !.ExcludeSignatures = xs, !.Include = inc, !.Exclude = exc,
                !.Limit = n] :
         p \in PipelineVariants, vp \in {"any", "v", "none"}, xs \in BOOLEAN,
         inc \in {"nil", "^v"}, exc \in {"nil", "-rc"}, n \in {0, 1} }

PrefilterInit ==
    /\ op = "init"
    /\ tags \in SeqsUpTo(PrefilterTags, MaxPrefilterLen)
    /\ opt \in PrefilterConfigs
    /\ out = <<>>
    /\ info = NoInfo

\* Filter's loop over the tags, keeping those prefilterTag passes.
PrefilterTag ==
    /\ op = "init"
    /\ op' = "prefilterTag"
    /\ out' = SelectSeq(tags, LAMBDA t : prefilterTag(t, opt))
    /\ UNCHANGED <<tags, opt, info>>

PreFilterRaw ==
    /\ op = "init"
    /\ op' = "preFilterRaw"
    /\ out' = preFilterRaw(tags, opt)
    /\ UNCHANGED <<tags, opt, info>>

PrefilterNext ==
    \/ PrefilterTag
    \/ PreFilterRaw
    \/ DoFilter
    \/ DoFilterBench

PrefilterSpec == PrefilterInit /\ [][PrefilterNext]_vars

\* ----------------------------------------------------------- RenderSpec

\* Four spellings of one version (plain, leading v, build metadata,
\* shorthand) and a non-version.
RenderTags ==
    { Ver("", <<1, 0, 0>>, <<>>, 0),
      Ver("v", <<1, 0, 0>>, <<>>, 0),
      Ver("", <<1, 0, 0>>, <<>>, 1),
      Ver("v", <<1, 0>>, <<>>, 0),
      Junk(1) }

RenderConfigs ==
    { [ZeroOptions EXCEPT !.FilterSemver = fs, !.OutputCanonical = oc, !.OutputSemVer = os,
                          !.Deduplicate = dd, !.Sort = s] :
         fs \in BOOLEAN, oc \in BOOLEAN, os \in BOOLEAN, dd \in BOOLEAN,
         s \in {"none", "desc"} }

RenderInit ==
    /\ op = "init"
    /\ tags \in SeqsUpTo(RenderTags, MaxLen)
    /\ opt \in RenderConfigs
    /\ out = <<>>
    /\ info = NoInfo

\* The operations of SelectSpec, started from the rendering configurations.
RenderSpec == RenderInit /\ [][SelectNext]_vars

\* ------------------------------------------------------------ LimitSpec

LimitTags ==
    { Ver("", <<1, 0, 0>>, <<>>, 0),
      Ver("", <<1, 1, 0>>, <<>>, 0),
      Ver("", <<2, 0, 0>>, <<>>, 0),
      Ver("v", <<1, 0>>, <<>>, 0),
      Junk(1) }

\* Limits from a negative one to MaxLimit.
LimitConfigs ==
    { [ZeroOptions EXCEPT !.FilterSemver = fs, !.Depth = d, !.Limit = n] :
         fs \in BOOLEAN, d \in {"patch", "minor"}, n \in (0 - 1)..MaxLimit }

LimitInit ==
    /\ op = "init"
    /\ tags \in SeqsUpTo(LimitTags, MaxLen)
    /\ opt \in LimitConfigs
    /\ out = <<>>
    /\ info = NoInfo

CapStrings ==
    /\ op = "init"
    /\ op' = "capStrings"
    /\ out' = capStrings(tags, opt.Limit)
    /\ UNCHANGED <<tags, opt, info>>

LimitNext ==
    \/ CapStrings
    \/ DoFilter
    \/ DoFilterBench

LimitSpec == LimitInit /\ [][LimitNext]_vars

\* ---------------------------------------------------------- FrameSpec
\*
\* Backing storage of the []string slices a call touches.  A slice is a
\* backing array and a length; "in" is the caller's array.  make and
\* append-to-nil give a fresh array, in[:0] and "return in" give the
\* argument's own array, and an in-place sort or compaction writes to the
\* array of the slice it is handed.  Slices of parsed values ([]rec,
\* []semver.Semver, []item) are of another type and cannot share storage
\* with a []string, so they are kept as values.

Arrays == {"in", "raw", "lex", "out"}

CallerMem(in) == [a \in Arrays |-> IF a = "in" THEN in ELSE <<>>]

CallerSlice(in) == [arr |-> "in", len |-> Len(in)]

\* The elements a slice shows.
At(m, s) == SubSeq(m[s.arr], 1, s.len)

\* Writing vals from the start of array a; what lies beyond stays.
Store(m, a, vals) == [m EXCEPT ![a] = vals \o SubSeq(m[a], Len(vals) + 1, Len(m[a]))]

Stored(m, a, vals) == [m |-> Store(m, a, vals), s |-> [arr |-> a, len |-> Len(vals)]]

\* Variant of preFilterRaw that compacts into its argument (out := in[:0]).
preFilterRawMem_InPlace(m, s, o) == Stored(m, s.arr, preFilterRaw(At(m, s), o))

\* preFilterRaw: out := make([]string, 0, len(in)).
preFilterRawMem(m, s, o) == Stored(m, "raw", preFilterRaw(At(m, s), o))

\* sortStrings: sort.SliceStable on the slice handed in.
sortStringsMem(m, s, asc) == Stored(m, s.arr, sortStrings(At(m, s), asc))

\* stringOnlyPipeline: sorts its argument in place and returns it.
stringOnlyPipelineMem(m, s, o) ==
    CASE o.Sort = "asc" -> sortStringsMem(m, s, TRUE)
      [] o.Sort = "desc" -> sortStringsMem(m, s, FALSE)
      [] OTHER -> [m |-> m, s |-> s]

\* capStrings: a shorter slice of the same array.
capStringsMem(r, limit) == [r EXCEPT !.s.len = Len(capStrings(At(r.m, r.s), limit))]

\* Select from the prefiltered slice on: the string-only path works on raw
\* itself, the version path on parsed records and a fresh render.
selectRawMem(r, o) ==
    IF r.s.len = 0 THEN Stored(r.m, "out", <<>>)
    ELSE IF \A i \in 1..r.s.len : ~Parse(At(r.m, r.s)[i]).Valid
    THEN IF o.FilterSemver THEN Stored(r.m, "out", <<>>)
         ELSE capStringsMem(stringOnlyPipelineMem(r.m, r.s, o), o.Limit)
    ELSE Stored(r.m, "out", selectRaw(At(r.m, r.s), o))

SelectMem(m, s, opt0) == selectRawMem(preFilterRawMem(m, s, normalized(opt0)), normalized(opt0))

\* Filter: out := make(...) on the fast path, projectOut's make otherwise.
FilterMem(m, s, opt0) == {Stored(m, "out", f) : f \in Filter(At(m, s), opt0)}

\* sortLex: out := append([]string(nil), in...), then sorted.
sortLexMem(m, s, mode) == {Stored(m, "lex", r) : r \in sortLex(At(m, s), mode)}

\* Sort: the argument itself when there is nothing to sort, else a copy.
SortMem(m, s, mode, normalizeShorthand_) ==
    IF mode = "none" \/ s.len < 2 THEN {[m |-> m, s |-> s]}
    ELSE IF \E i \in 1..s.len :
                ~IsValid(Parse(IF normalizeShorthand_ THEN normalizeShorthand(At(m, s)[i])
                               ELSE At(m, s)[i]))
    THEN sortLexMem(m, s, mode)
    ELSE {Stored(m, "out", r) : r \in Sort(At(m, s), mode, normalizeShorthand_)}

Select_apiMem(m, s, o) ==
    UNION {IF o.Sort # "none" THEN SortMem(f.m, f.s, o.Sort, o.ReleaseOnly) ELSE {f} :
              f \in FilterMem(m, s, o)}

\* Versions out of order, one with a leading v, and two non-versions.
FrameTags ==
    { Ver("", <<1, 0, 0>>, <<>>, 0),
      Ver("", <<2, 0, 0>>, <<>>, 0),
      Ver("v", <<1, 5, 0>>, <<>>, 0),
      Junk(1),
      Junk(2) }

FrameConfigs ==
    { [ZeroOptions EXCEPT !.FilterSemver = fs, !.ReleaseOnly = ro, !.Sort = s,
                          !.VPrefix = vp, !.Depth = d] :
         fs \in BOOLEAN, ro \in BOOLEAN, s \in {"none", "asc", "desc"},
         vp \in {"any", "none"}, d \in {"patch", "minor"} }

\* info.before remembers what the caller's array held before the call;
\* tags is what it holds now.
FrameInit ==
    /\ op = "init"
    /\ tags \in SeqsUpTo(FrameTags, MaxLen)
    /\ opt \in FrameConfigs
    /\ out = <<>>
    /\ info = [before |-> tags]

FrameSelect ==
    /\ op = "init"
    /\ op' = "Select"
    /\ tags' = SelectMem(CallerMem(tags), CallerSlice(tags), opt).m["in"]
    /\ out' = At(SelectMem(CallerMem(tags), CallerSlice(tags), opt).m,
                 SelectMem(CallerMem(tags), CallerSlice(tags), opt).s)
    /\ UNCHANGED <<opt, info>>

FrameSelectApi ==
    /\ op = "init"
    /\ op' = "Select_api"
    /\ \E r \in Select_apiMem(CallerMem(tags), CallerSlice(tags), opt) :
          /\ tags' = r.m["in"]
          /\ out' = At(r.m, r.s)
    /\ UNCHANGED <<opt, info>>

FrameFilter ==
    /\ op = "init"
    /\ op' = "Filter"
    /\ \E r \in FilterMem(CallerMem(tags), CallerSlice(tags), opt) :
          /\ tags' = r.m["in"]
          /\ out' = At(r.m, r.s)
    /\ UNCHANGED <<opt, info>>

FrameSort ==
    /\ op = "init"
    /\ op' = "Sort"
    /\ \E r \in SortMem(CallerMem(tags), CallerSlice(tags), opt.Sort, opt.ReleaseOnly) :
          /\ tags' = r.m["in"]
          /\ out' = At(r.m, r.s)
    /\ UNCHANGED <<opt, info>>

FrameNext ==
    \/ FrameSelect
    \/ FrameSelectApi
    \/ FrameFilter
    \/ FrameSort

FrameSpec == FrameInit /\ [][FrameNext]_vars

\* ------------------------------------------------------- NormalizeSpec

\* The release 2 in every spelling (2, v2, V2, 2.0.1, v2.0), its neighbours
\* 1.9.9 and v1.9.9, a prerelease with a leading v and a word with one.
NormalizeTags ==
    { Ver("", <<2>>, <<>>, 0),
      Ver("v", <<2>>, <<>>, 0),
      Ver("V", <<2>>, <<>>, 0),
      Ver("v", <<2, 0>>, <<>>, 0),
      Ver("", <<2, 0, 1>>, <<>>, 0),
      Ver("", <<1, 9, 9>>, <<>>, 0),
      Ver("v", <<1, 9, 9>>, <<>>, 0),
      Ver("v", <<1, 9, 9>>, <<102>>, 0),
      Junk(3) }

NormalizeInit ==
    /\ op = "init"
    /\ tags \in SeqsUpTo(NormalizeTags, MaxLen)
    /\ opt \in {[ZeroOptions EXCEPT !.Sort = s] : s \in {"asc", "desc"}}
    /\ out = <<>>
    /\ info \in {[normalizeShorthand |-> b] : b \in BOOLEAN}

NormalizeShorthand ==
    /\ op = "init"
    /\ op' = "normalizeShorthand"
    /\ out' = [i \in 1..Len(tags) |-> normalizeShorthand(tags[i])]
    /\ UNCHANGED <<tags, opt, info>>

NormalizeNext ==
    \/ NormalizeShorthand
    \/ DoSort

NormalizeSpec == NormalizeInit /\ [][NormalizeNext]_vars

\* ----------------------------------------------------------- OrderSpec

\* Series 1.1, 1.2 (with an alias and a member above 1.2.5), 1.3 and 2.0.
OrderTags ==
    { Ver("", <<1, 1, 0>>, <<>>, 0),
      Ver("", <<1, 2, 0>>, <<>>, 0),
      Ver("", <<1, 2, 3>>, <<>>, 0),
      Ver("v", <<1, 2, 3>>, <<>>, 0),
      Ver("", <<1, 2, 9>>, <<>>, 0),
      Ver("", <<1, 3, 0>>, <<>>, 0),
      Ver("", <<2, 0, 0>>, <<>>, 0) }

\* No range, a ceiling inside series 1.2, a floor and that ceiling, and an
\* exclusive floor.
OrderRanges ==
    { NoRange,
      [NoRange EXCEPT !.Max = Ver("", <<1, 2, 5>>, <<>>, 0)],
      [NoRange EXCEPT !.Min = Ver("", <<1, 2, 0>>, <<>>, 0),
                      !.Max = Ver("", <<1, 2, 5>>, <<>>, 0)],
      [NoRange EXCEPT !.Min = Ver("", <<1, 2, 3>>, <<>>, 0), !.MinExclusive = TRUE] }

OrderConfigs ==
    { [ZeroOptions EXCEPT !.FilterSemver = TRUE, !.Range = r, !.Depth = d, !.Deduplicate = dd] :
         r \in OrderRanges, d \in {"minor", "major", "latest"}, dd \in BOOLEAN }

OrderInit ==
    /\ op = "init"
    /\ tags \in SeqsUpTo(OrderTags, MaxLen)
    /\ opt \in OrderConfigs
    /\ out = <<>>
    /\ info = NoInfo

OrderNext ==
    \/ DoFilter
    \/ DoSelect

OrderSpec == OrderInit /\ [][OrderNext]_vars

\* ------------------------------------------------------ ConvenienceSpec

\* DefaultOptions of rats.go.
DefaultOptions ==
    [ZeroOptions EXCEPT !.FilterSemver = TRUE, !.Format = FormatAll, !.Depth = "minor",
                        !.Sort = "desc", !.Deduplicate = TRUE]

\* DefaultOptions of part_001: ReleaseOnly as well.
DefaultOptions_part_001 == [DefaultOptions EXCEPT !.ReleaseOnly = TRUE]

Releases_rats(in) == Select(in, DefaultOptions)

Latest_rats(in) == Select(in, [DefaultOptions EXCEPT !.Depth = "latest"])

\* Variant of LatestPerMajor that returns the oldest series first.
LatestPerMajor_rats_Ascending(in) ==
    Select(in, [DefaultOptions EXCEPT !.Depth = "major", !.Sort = "asc"])

LatestPerMajor_rats(in) == Select(in, [DefaultOptions EXCEPT !.Depth = "major"])

\* The same three over the Select of part_001: the sets of lists they may
\* return.
Releases_part_001(in) == Select_part_001(in, DefaultOptions_part_001)

Latest_part_001(in) ==
    Select_part_001(in, [DefaultOptions_part_001 EXCEPT !.Depth = "latest"])

LatestPerMajor_part_001(in) ==
    Select_part_001(in, [DefaultOptions_part_001 EXCEPT !.Depth = "major"])

\* Releases of three major series, two of them also spelled in shorthand, a
\* prerelease and a build above every release, and a non-version.
ConvenienceTags ==
    { Ver("", <<1, 0, 0>>, <<>>, 0),
      Ver("v", <<1, 0>>, <<>>, 0),
      Ver("", <<1, 2, 0>>, <<>>, 0),
      Ver("", <<2, 0, 0>>, <<>>, 0),
      Ver("", <<2>>, <<>>, 0),
      Ver("", <<2, 1, 0>>, <<102>>, 0),
      Ver("", <<3, 0, 0>>, <<>>, 1),
      Junk(1) }

\* info records the generation under call and what each call returned.
ConvenienceInit ==
    /\ op = "init"
    /\ tags \in SeqsUpTo(ConvenienceTags, MaxLen)
    /\ opt = DefaultOptions
    /\ out = <<>>
    /\ info \in {[gen |-> g, called |-> {}, Releases |-> <<>>, Latest |-> <<>>,
                  LatestPerMajor |-> <<>>] : g \in {"rats", "part_001"}}

CallReleases ==
    /\ "Releases" \notin info.called
    /\ op' = "Releases"
    /\ out' \in (IF info.gen = "rats" THEN {Releases_rats(tags)} ELSE Releases_part_001(tags))
    /\ info' = [info EXCEPT !.called = @ \cup {"Releases"}, !.Releases = out']
    /\ UNCHANGED <<tags, opt>>

CallLatest ==
    /\ "Latest" \notin info.called
    /\ op' = "Latest"
    /\ out' \in (IF info.gen = "rats" THEN {Latest_rats(tags)} ELSE Latest_part_001(tags))
    /\ info' = [info EXCEPT !.called = @ \cup {"Latest"}, !.Latest = out']
    /\ UNCHANGED <<tags, opt>>

CallLatestPerMajor ==
    /\ "LatestPerMajor" \notin info.called
    /\ op' = "LatestPerMajor"
    /\ out' \in (IF info.gen = "rats" THEN {LatestPerMajor_rats(tags)}
                 ELSE LatestPerMajor_part_001(tags))
    /\ info' = [info EXCEPT !.called = @ \cup {"LatestPerMajor"}, !.LatestPerMajor = out']
    /\ UNCHANGED <<tags, opt>>

ConvenienceNext ==
    \/ CallReleases
    \/ CallLatest
    \/ CallLatestPerMajor

ConvenienceSpec == ConvenienceInit /\ [][ConvenienceNext]_vars

\* ------------------------------------------------------------ PackSpec

\* Non-negative values of a 64-bit int: 0, 1, 2^16, 2^31, 2^32, 2^32 + 1
\* and 2^63 - 1.
WideInts ==
    { <<0, 0, 0, 0>>,
      <<0, 0, 0, 1>>,
      <<0, 0, 1, 0>>,
      <<0, 0, 32768, 0>>,
      <<0, 1, 0, 0>>,
      <<0, 1, 0, 1>>,
      <<32767, 65535, 65535, 65535>> }

\* tags holds the (major, minor) of two versions.
PackInit ==
    /\ op = "init"
    /\ tags \in [1..2 -> [Major : WideInts, Minor : WideInts]]
    /\ opt = ZeroOptions
    /\ out = <<>>
    /\ info = NoInfo

\* The group keys aggregateMinor computes for the two versions.
Pack ==
    /\ op = "init"
    /\ op' = "pack"
    /\ out' = [i \in 1..2 |-> pack(tags[i].Major, tags[i].Minor)]
    /\ UNCHANGED <<tags, opt, info>>

PackNext == Pack

PackSpec == PackInit /\ [][PackNext]_vars

\* ---------------------------------------------------- range: properties

Ranged == op \in {"clipRange", "applyRange"}

\* Precedence of two tags that parse.
Prec(a, b) == Compare(Parse(a), Parse(b))

Unparseable(raw) == raw # EmptyStr /\ ~IsValid(Parse(raw))

IsShorthand(raw, d) ==
    CASE d = 1 -> relX(raw)
      [] d = 2 -> relXY(raw)
      [] OTHER -> relXYZ(raw)

\* The floor the stage under op works with.
FloorOf(o, r) ==
    IF o = "clipRange"
    THEN LET b == clipBounds(r) IN [ok |-> b.haveMin, v |-> b.minFloor, excl |-> b.minIsExclusive]
    ELSE LET b == parseBound(r.Min, r.IncludePrerelease, FALSE) IN
         [ok |-> b.ok, v |-> b.v, excl |-> r.MinExclusive]

FloorKeeps(t, f) ==
    \/ ~f.ok
    \/ Compare(Parse(t), f.v) > 0
    \/ Compare(Parse(t), f.v) = 0 /\ ~f.excl

CeilingKeeps(t, b) == ~b.haveMax \/ Compare(Parse(t), b.maxExclusive) < 0

\* The ceiling test of applyRange: it compiles no ceiling and holds v
\* against the parsed Max, inclusive or exclusive as configured.
ParsedCeilingKeeps(t, r) ==
    LET m == parseBound(r.Max, r.IncludePrerelease, TRUE) IN
    \/ ~m.ok
    \/ Compare(Parse(t), m.v) < 0
    \/ Compare(Parse(t), m.v) = 0 /\ ~r.MaxExclusive

\* The Max texts for which the parsed Max of applyRange and the ceiling
\* compiled by compileMaxExclusive bound the same versions: every Max but a
\* shorthand X or X.Y and an exclusive X.Y.Z.
SameCeiling(r) == ~relX(r.Max) /\ ~relXY(r.Max) /\ ~(relXYZ(r.Max) /\ r.MaxExclusive)

RECURSIVE CoreCmp(_, _, _, _)
CoreCmp(a, b, i, d) ==
    IF i > d THEN 0
    ELSE IF a[i] < b[i] THEN -1
    ELSE IF a[i] > b[i] THEN 1
    ELSE CoreCmp(a, b, i + 1, d)

Core(v) == <<v.Major, v.Minor, v.Patch>>

SeriesCmp(t, bound, d) == CoreCmp(Core(Parse(t)), Core(Parse(bound)), 1, d)

ShorthandMaxOnly(r) ==
    /\ r.Min = EmptyStr
    /\ \E d \in 1..3 : IsShorthand(r.Max, d)

\* What C3 asks of a stage whose only bound is a shorthand Max of depth d.
C3_Expected(r) ==
    LET d == Len(r.Max.segs) IN
    SelectSeq(tags, LAMBDA t : IF r.MaxExclusive THEN SeriesCmp(t, r.Max, d) < 0
                                                 ELSE SeriesCmp(t, r.Max, d) <= 0)

\* C3: a shorthand Max of depth d, inclusive, keeps every version inside the
\* bound's series (prereleases and higher patch/minor versions included) and
\* drops every release and prerelease of the next series; exclusive, it drops
\* the whole bound series, the prereleases of its first version included.
C3_ShorthandMax ==
    (Ranged /\ ShorthandMaxOnly(opt.Range)) => out = C3_Expected(opt.Range)

\* C3 as clipRange (range.go) meets it.
C3_ClipRangeOnly ==
    (op = "clipRange" /\ ShorthandMaxOnly(opt.Range)) => out = C3_Expected(opt.Range)

\* The stage of op run again on the same input under another range.
Rerun(o, r) ==
    IF o = "clipRange" THEN Originals(clipRange(ParsedOf(tags), r))
    ELSE Raws(applyRange(parseAll(tags), r))

ShortMin(r) == relX(r.Min) \/ relXY(r.Min)

AtFloorCore(t, r) == SeriesCmp(t, r.Min, 3) = 0

\* C4: a shorthand Min X or X.Y has the floor X.0.0 / X.Y.0, or that version
\* with prerelease 0 when IncludePrerelease is set; with an inclusive Min the
\* prereleases of the floor version are kept exactly when IncludePrerelease
\* is set and the floor release is kept either way; IncludePrerelease changes
\* nothing for a three-segment or full Min.
C4_ShorthandMinFloor ==
    Ranged =>
      LET r == opt.Range
          f == FloorOf(op, r)
      IN
      /\ ShortMin(r) =>
            /\ f.ok
            /\ Core(f.v) = Core(Parse(r.Min))
            /\ f.v.Patch = 0
            /\ f.v.Prerelease = (IF r.IncludePrerelease THEN <<0>> ELSE <<>>)
      /\ (ShortMin(r) /\ ~r.MinExclusive /\ r.Max = EmptyStr) =>
            \A i \in 1..Len(tags) :
                AtFloorCore(tags[i], r) =>
                    (tags[i] \in Range_(out)) =
                        (Parse(tags[i]).Prerelease = <<>> \/ r.IncludePrerelease)
      /\ (r.Min # EmptyStr /\ ~ShortMin(r)) =>
            out = Rerun(op, [r EXCEPT !.IncludePrerelease = ~@])

\* Min v1.2 with IncludePrerelease: 1.2.0-alpha and 1.2.0 both survive.
C4_Witness ==
    /\ op = "applyRange"
    /\ opt.Range.Min = Ver("v", <<1, 2>>, <<>>, 0)
    /\ opt.Range.IncludePrerelease
    /\ ~opt.Range.MinExclusive
    /\ out = <<Ver("", <<1, 2, 0>>, <<100>>, 0), Ver("", <<1, 2, 0>>, <<>>, 0)>>

FullMax(r) == IsValid(Parse(r.Max)) /\ Len(r.Max.segs) = 3

\* C5: for a three-segment or full Max, inclusive, exactly the versions of
\* precedence at most the bound pass (1.2.3 stays, 1.2.4-0 goes), and the
\* ceiling compiled from a bound with prerelease P is X.Y.Z-P.0, below every
\* version above the bound; exclusive, the versions equal to the bound in
\* precedence, build-only variants included, are dropped.
C5_CeilingFencepost ==
    (Ranged /\ opt.Range.Min = EmptyStr /\ FullMax(opt.Range)) =>
      LET r == opt.Range IN
      /\ ~r.MaxExclusive => out = SelectSeq(tags, LAMBDA t : Prec(t, r.Max) <= 0)
      /\ r.MaxExclusive =>
            \A i \in 1..Len(tags) : Prec(tags[i], r.Max) >= 0 => tags[i] \notin Range_(out)
      /\ (op = "clipRange" /\ ~r.MaxExclusive /\ r.Max.pre # <<>>) =>
            LET c == clipBounds(r).maxExclusive IN
            /\ Core(c) = Core(Parse(r.Max))
            /\ c.Prerelease = Append(r.Max.pre, 0)
            /\ \A u \in RangeVers : Prec(u, r.Max) > 0 => Compare(Parse(u), c) >= 0

\* Inclusive Max 1.2.3-rc: 1.2.3-rc passes, 1.2.3-rc.0 right above it does not.
C5_Witness ==
    /\ op = "clipRange"
    /\ opt.Range.Max = Ver("", <<1, 2, 3>>, <<102>>, 0)
    /\ ~opt.Range.MaxExclusive
    /\ tags = <<Ver("", <<1, 2, 3>>, <<102>>, 0), Ver("", <<1, 2, 3>>, <<102, 0>>, 0)>>
    /\ out = <<Ver("", <<1, 2, 3>>, <<102>>, 0)>>

\* C6: a Min (Max) that parses neither as a shorthand nor as a full version
\* makes bound compilation report ok = false; the stage then runs as if that
\* bound were not configured: the other bound still applies and, with no
\* other bound, nothing is rejected.
C6_UnparseableBound ==
    Ranged =>
      LET r == opt.Range IN
      /\ Unparseable(r.Min) =>
            /\ ~info.haveMin
            /\ ~compileMin(r.Min, r.MinExclusive, r.IncludePrerelease).ok
            /\ ~parseBound(r.Min, r.IncludePrerelease, FALSE).ok
            /\ out = Rerun(op, [r EXCEPT !.Min = EmptyStr])
            /\ (r.Max = EmptyStr \/ Unparseable(r.Max)) => out = tags
      /\ Unparseable(r.Max) =>
            /\ ~info.haveMax
            /\ ~compileMaxExclusive(r.Max, r.MaxExclusive).ok
            /\ ~parseBound(r.Max, r.IncludePrerelease, TRUE).ok
            /\ out = Rerun(op, [r EXCEPT !.Max = EmptyStr])
            /\ (r.Min = EmptyStr \/ Unparseable(r.Min)) => out = tags

\* An unparseable Max beside Min v1.2: the floor still clips, no ceiling does.
C6_Witness ==
    /\ op = "clipRange"
    /\ Unparseable(opt.Range.Max)
    /\ opt.Range.Min = Ver("v", <<1, 2>>, <<>>, 0)
    /\ ~info.haveMax
    /\ info.haveMin
    /\ tags = <<Ver("", <<1, 1, 9>>, <<>>, 0), Ver("", <<2, 0, 0>>, <<0>>, 0)>>
    /\ out = <<Ver("", <<2, 0, 0>>, <<0>>, 0)>>

\* ---------------------------------------------------- stage: properties

\* The positions of s that satisfy keepAt, in order, as the tags they hold.
PickAt(s, keepAt(_)) ==
    LET idxs == SelectSeq([i \in 1..Len(s) |-> i], keepAt)
    IN [k \in 1..Len(idxs) |-> s[idxs[k]]]

\* The identity a dedup pass is claimed to use: (major, minor, patch,
\* prerelease) of the parsed tag, build metadata left out.
VersionIdentity(t) ==
    LET v == Parse(t) IN <<v.Major, v.Minor, v.Patch, v.Prerelease>>

Deduped == op \in {"deduplicate", "deduplicateSemver"}

\* C7: a dedup pass keeps exactly the first occurrence of every (major,
\* minor, patch, prerelease) identity, in the order the first occurrences
\* have in the input; tags that differ only in build metadata, prefix or
\* shorthand form collapse to the first seen.
C7_DedupFirstOccurrence ==
    Deduped =>
        out = PickAt(tags, LAMBDA i :
                  \A j \in 1..(i - 1) : VersionIdentity(tags[j]) # VersionIdentity(tags[i]))

\* C7 witness: v1.1, 1.1.0+b1, 1.1.0-rc deduplicated to v1.1, 1.1.0-rc.
C7_Witness ==
    /\ op = "deduplicate"
    /\ tags = << Ver("v", <<1, 1>>, <<>>, 0), Ver("", <<1, 1, 0>>, <<>>, 1),
                 Ver("", <<1, 1, 0>>, <<102>>, 0) >>
    /\ out = << Ver("v", <<1, 1>>, <<>>, 0), Ver("", <<1, 1, 0>>, <<102>>, 0) >>

\* The group a tag belongs to under the aggregation the state ran.
GroupOf(t) ==
    LET v == Parse(t)
    IN IF op \in {"aggregateMinor", "latestPerMinor"} THEN <<v.Major, v.Minor>> ELSE <<v.Major>>

Aggregated == op \in {"aggregateMinor", "aggregateMajor", "latestPerMinor", "latestPerMajor"}

\* The first input position holding a version of highest precedence in g.
BestIndex(g) ==
    CHOOSE i \in 1..Len(tags) :
        /\ GroupOf(tags[i]) = g
        /\ \A j \in 1..Len(tags) : GroupOf(tags[j]) = g => Prec(tags[j], tags[i]) <= 0
        /\ \A j \in 1..(i - 1) : GroupOf(tags[j]) = g => Prec(tags[j], tags[i]) < 0

\* C8: Minor / Major aggregation emits exactly one version per group, the
\* one of highest precedence, and among versions of equal precedence the one
\* earliest in the input.
C8_OnePerGroup ==
    Aggregated =>
        LET groups == {GroupOf(tags[i]) : i \in 1..Len(tags)}
        IN /\ Len(out) = Cardinality(groups)
           /\ \A g \in groups :
                  \E k \in 1..Len(out) :
                      /\ out[k] = tags[BestIndex(g)]
                      /\ \A l \in 1..Len(out) : GroupOf(out[l]) = g => l = k

\* C8 witness: 1.1.0-rc, v1.1, 1.1.0+b1 aggregated by minor to v1.1.
C8_Witness ==
    /\ op = "aggregateMinor"
    /\ tags = << Ver("", <<1, 1, 0>>, <<102>>, 0), Ver("v", <<1, 1>>, <<>>, 0),
                 Ver("", <<1, 1, 0>>, <<>>, 1) >>
    /\ out = << Ver("v", <<1, 1>>, <<>>, 0) >>

\* The first input position whose tag is in group g.
FirstAppearance(g) ==
    CHOOSE i \in 1..Len(tags) :
        GroupOf(tags[i]) = g /\ \A j \in 1..(i - 1) : GroupOf(tags[j]) # g

InFirstAppearanceOrder ==
    \A k, l \in 1..Len(out) :
        k < l => FirstAppearance(GroupOf(out[k])) < FirstAppearance(GroupOf(out[l]))

\* C9 as stated: every Minor / Major aggregation, latestPerMinor and
\* latestPerMajor included, orders its output by the first appearance of
\* each group in the input.
C9_FirstAppearanceOrder == Aggregated => InFirstAppearanceOrder

\* C9 amended: aggregateMinor and aggregateMajor order their output by the
\* first appearance of each group in the input (1.0.0, 1.0.1, 1.1.0 gives
\* 1.0.1, 1.1.0); latestPerMinor and latestPerMajor order theirs by
\* descending precedence.
C9_AggregateOrder ==
    /\ op \in {"aggregateMinor", "aggregateMajor"} => InFirstAppearanceOrder
    /\ op \in {"latestPerMinor", "latestPerMajor"} =>
           \A k, l \in 1..Len(out) : k < l => Prec(out[k], out[l]) > 0
    /\ ( /\ op = "aggregateMinor"
         /\ tags = << Ver("", <<1, 0, 0>>, <<>>, 0), Ver("", <<1, 0, 1>>, <<>>, 0),
                      Ver("", <<1, 1, 0>>, <<>>, 0) >> )
       => out = << Ver("", <<1, 0, 1>>, <<>>, 0), Ver("", <<1, 1, 0>>, <<>>, 0) >>

\* C9 witness: 1.0.0, 2.0.0, 1.0.1 aggregated by minor to 1.0.1, 2.0.0, the
\* series 1.0 first because it appeared first.
C9_Witness ==
    /\ op = "aggregateMinor"
    /\ tags = << Ver("", <<1, 0, 0>>, <<>>, 0), Ver("", <<2, 0, 0>>, <<>>, 0),
                 Ver("", <<1, 0, 1>>, <<>>, 0) >>
    /\ out = << Ver("", <<1, 0, 1>>, <<>>, 0), Ver("", <<2, 0, 0>>, <<>>, 0) >>

\* --------------------------------------------------- select: properties

Selected == op \in {"Select_api", "Select_part_001", "Select"}

\* The lists the operation of this state may return for the same input when
\* no limit is set: the fully sorted filtered list.
Unlimited ==
    LET o == [opt EXCEPT !.Limit = 0]
    IN CASE op = "Select_api" -> Select_api(tags, o)
         [] op = "Select_part_001" -> Select_part_001(tags, o)
         [] op = "Select" -> {Select(tags, o)}
         [] OTHER -> Filter(tags, o)

\* C1: Select with a sort mode other than None and Limit N > 0 returns the
\* first N elements of the fully sorted filtered list (the limit is applied
\* after sorting, never to the unsorted filter result), for every Select
\* the repository holds.
C1_LimitAfterSort ==
    (Selected /\ opt.Sort # "none" /\ opt.Limit > 0) =>
        \E full \in Unlimited : out = SubSeq(full, 1, Min2(opt.Limit, Len(full)))

\* Filter's group representatives for the depth asked: the versions that
\* survive the gate, each the first of highest precedence in its group.
Survivors == SelectSeq(tags, LAMBDA t : Parse(t).Valid)

\* C10: Filter with DepthMinor or DepthMajor emits one representative per
\* group in strictly descending precedence, newest first, whatever the
\* order of the input; a Limit keeps the newest ones.
C10_FilterAggregationOrder ==
    (op = "Filter" /\ opt.FilterSemver /\ opt.Depth \in {"minor", "major"}) =>
        LET key(t) == IF opt.Depth = "minor" THEN <<Parse(t).Major, Parse(t).Minor>>
                      ELSE <<Parse(t).Major>>
            groups == {key(Survivors[i]) : i \in 1..Len(Survivors)}
            n == Cardinality(groups)
        IN /\ \A k, l \in 1..Len(out) : k < l => Prec(out[k], out[l]) > 0
           /\ Len(out) = IF opt.Limit > 0 THEN Min2(opt.Limit, n) ELSE n
           /\ \A k \in 1..Len(out) :
                  /\ \E i \in 1..Len(Survivors) : Survivors[i] = out[k]
                  /\ \A i \in 1..Len(Survivors) :
                         \/ Prec(Survivors[i], out[k]) <= 0 /\ key(Survivors[i]) = key(out[k])
                         \/ key(Survivors[i]) # key(out[k])
                  /\ \A g \in groups :
                         (\A l \in 1..Len(out) : key(out[l]) # g) =>
                             \A i \in 1..Len(Survivors) :
                                 key(Survivors[i]) = g => Prec(Survivors[i], out[k]) < 0

\* C10 witness: 1.0.0, 2.0.0, 1.5.0 filtered by minor to 2.0.0, 1.5.0, 1.0.0.
C10_Witness ==
    /\ op = "Filter"
    /\ opt.FilterSemver
    /\ opt.Depth = "minor"
    /\ opt.Limit = 0
    /\ tags = << Ver("", <<1, 0, 0>>, <<>>, 0), Ver("", <<2, 0, 0>>, <<>>, 0),
                 Ver("", <<1, 5, 0>>, <<>>, 0) >>
    /\ out = << Ver("", <<2, 0, 0>>, <<>>, 0), Ver("", <<1, 5, 0>>, <<>>, 0),
                Ver("", <<1, 0, 0>>, <<>>, 0) >>

\* ------------------------------------------------------------ claim C11

LatestTaken == op \in {"aggregateLatest", "filterLatest"}

\* The position of the winner: no tag has higher precedence, and every
\* earlier tag has strictly lower precedence.
LatestIndex ==
    CHOOSE k \in 1..Len(tags) :
        /\ \A j \in 1..Len(tags) : Prec(tags[j], tags[k]) <= 0
        /\ \A j \in 1..(k - 1) : Prec(tags[j], tags[k]) < 0

\* C11: Depth Latest returns exactly one element on a non-empty input, the
\* tag of maximum precedence and, among tags of equal precedence, the one
\* that comes first in the input; on an empty input it returns the empty list.
C11_LatestSingleWinner ==
    LatestTaken =>
        IF tags = <<>> THEN out = <<>>
        ELSE /\ \E k \in 1..Len(tags) :
                    /\ \A j \in 1..Len(tags) : Prec(tags[j], tags[k]) <= 0
                    /\ \A j \in 1..(k - 1) : Prec(tags[j], tags[k]) < 0
             /\ out = <<tags[LatestIndex]>>

\* The maximum is shared by three spellings (1.1.0, v1.1, 1.1.0+b1) and is
\* not at the front: the first of them listed, v1.1, is the one returned.
C11_Witness ==
    /\ LatestTaken
    /\ tags = << Ver("", <<1, 0, 1>>, <<>>, 0), Ver("v", <<1, 1>>, <<>>, 0),
                 Ver("", <<1, 1, 0>>, <<>>, 1) >>
    /\ out = << Ver("v", <<1, 1>>, <<>>, 0) >>

\* ------------------------------------------------------------ claim C12

\* s and t hold the same tags the same number of times.
SameBag(s, t) ==
    /\ Len(s) = Len(t)
    /\ \A x \in Range_(s) \cup Range_(t) :
           Cardinality({i \in 1..Len(s) : s[i] = x}) = Cardinality({i \in 1..Len(t) : t[i] = x})

AllValid == \A i \in 1..Len(tags) : IsValid(Parse(tags[i]))

\* The all-valid sorts: Sort (sort.go) and sortSemver (part_010).
SortedAsVersions == op \in {"Sort", "sortSemver"} /\ opt.Sort # "none" /\ AllValid

\* a may stand before b: lower precedence first when ascending, higher first
\* when descending, and equal precedence by the strings in the same direction.
MayPrecede(a, b) ==
    LET c == Prec(a, b) IN
    IF opt.Sort = "asc" THEN c < 0 \/ (c = 0 /\ ~StrLess(b, a))
    ELSE c > 0 \/ (c = 0 /\ ~StrLess(a, b))

\* C12: when every item is a valid version, the sorted output is the input
\* ordered by precedence, with items of equal precedence ordered by their
\* original strings in the direction of the sort mode (equal strings are
\* indistinguishable in the output); so it is one fixed list for each input.
C12_DeterministicTies ==
    SortedAsVersions =>
        /\ SameBag(out, tags)
        /\ \A i, j \in 1..Len(out) : i < j => MayPrecede(out[i], out[j])

\* The same statement for sortSemver alone.
C12_SortSemverOnly == op = "sortSemver" => C12_DeterministicTies

\* ------------------------------------------------------------ claim C13

\* s is in plain string order, in the direction of the sort mode.
LexOrdered(s) ==
    \A i, j \in 1..Len(s) : i < j =>
        IF opt.Sort = "asc" THEN ~StrLess(s[j], s[i]) ELSE ~StrLess(s[i], s[j])

\* s is in precedence order, ties by string, in the direction of the sort mode.
VersionOrdered(s) == \A i, j \in 1..Len(s) : i < j => MayPrecede(s[i], s[j])

\* A sort of a list in which some item is not a valid version.
SortedWithNonVersion ==
    op \in {"Sort", "sortStrings", "Select"} /\ opt.Sort # "none" /\ ~AllValid

NonVersion(t) == ~IsValid(Parse(t))

\* The options gate by version: FilterSemver (ReleaseOnly implies it) or a
\* Format mask.
GatesByVersion == normalized(opt).FilterSemver \/ normalized(opt).Format # {}

\* C14: Select keeps tags that are not valid versions only when the options
\* do not gate by version, and puts the ones it keeps after every version tag.
C14_NonVersionsKept ==
    op = "Select" =>
        /\ (\E i \in 1..Len(out) : NonVersion(out[i])) => ~GatesByVersion
        /\ \A i, j \in 1..Len(out) : (i < j /\ NonVersion(out[i])) => NonVersion(out[j])

\* The placement half alone.
C14_NonVersionsLast ==
    op = "Select" =>
        \A i, j \in 1..Len(out) : (i < j /\ NonVersion(out[i])) => NonVersion(out[j])

\* The gating half when some tag of the input is a version.
C14_GatedWithVersions ==
    (op = "Select" /\ \E i \in 1..Len(tags) : ~NonVersion(tags[i])) =>
        ((\E i \in 1..Len(out) : NonVersion(out[i])) => ~GatesByVersion)

\* ------------------------------------------------------------ claim C15

\* s is t with some positions left out.
Subsequence(s, t) ==
    /\ Len(s) <= Len(t)
    /\ \E f \in [1..Len(s) -> 1..Len(t)] : IsSubseqAt(s, t, f)

\* Filter or a Select, under Sort = None and Depth = Patch.
UnsortedPatch ==
    /\ op \in {"Filter", "Select_api", "Select_part_001", "Select"}
    /\ opt.Sort = "none"
    /\ opt.Depth = "patch"

ShapeOf(t) ==
    CASE Len(t.segs) = 1 -> "X"
      [] Len(t.segs) = 2 -> "XY"
      [] OTHER -> "XYZ"

\* A valid version without prerelease and without build metadata whose
\* shape is in the mask.
ReleaseOfShape(t, mask) ==
    /\ IsValid(Parse(t))
    /\ t.pre = <<>>
    /\ t.build = 0
    /\ ShapeOf(t) \in mask

\* Filter or a Select has run in release-only mode, without a limit.
ReleaseOnlyRun == op # "init" /\ normalized(opt).ReleaseOnly /\ opt.Limit = 0

\* C16: in release-only mode exactly the tags that are valid versions with
\* neither prerelease nor build metadata and with a shape in the Format mask
\* are accepted; a tag with prerelease or build data is rejected whatever
\* the mask.
C16_ReleaseOnlyGate ==
    ReleaseOnlyRun =>
        SameBag(out, SelectSeq(tags, LAMBDA t : ReleaseOfShape(t, normalized(opt).Format)))

\* Mask X.Y: the shorthand v1.0 is accepted; the full 1.0.0, the prerelease
\* and the non-version are rejected.
C16_Witness ==
    /\ ReleaseOnlyRun
    /\ opt.Format = {"XY"}
    /\ tags = << Ver("", <<1, 0, 0>>, <<>>, 0), Ver("v", <<1, 0>>, <<>>, 0), Junk(1) >>
    /\ out = << Ver("v", <<1, 0>>, <<>>, 0) >>

\* With every shape allowed, prerelease and build variants are still rejected.
C16_WitnessPreBuild ==
    /\ ReleaseOnlyRun
    /\ opt.Format = FormatAll
    /\ tags = << Ver("", <<1, 0, 0>>, <<102>>, 0), Ver("", <<2, 0, 0>>, <<>>, 1),
                 Ver("", <<2>>, <<>>, 0) >>
    /\ out = << Ver("", <<2>>, <<>>, 0) >>

\* ------------------------------------------------------------ claim C17

\* Filter or a Select has run with FilterSemver on and ReleaseOnly off,
\* without a limit.
SemverGateRun == op # "init" /\ opt.FilterSemver /\ ~opt.ReleaseOnly /\ opt.Limit = 0

\* C17: with FilterSemver on and release-only gating off, exactly the tags
\* that are valid versions are accepted, prerelease and build variants
\* included, whatever the Format mask.
C17_SemverGateIgnoresFormat ==
    SemverGateRun => SameBag(out, SelectSeq(tags, LAMBDA t : IsValid(Parse(t))))

\* The same statement for every operation but the Select of rats.go.
C17_FilterOnly == op # "Select" => C17_SemverGateIgnoresFormat

\* The same statement for the Select of rats.go when the Format mask is empty.
C17_SelectNoMask == (op = "Select" /\ opt.Format = {}) => C17_SemverGateIgnoresFormat

\* ------------------------------------------------------------ claim C18

\* A version written as X or X.Y.
ShorthandTag(t) == t.kind = "ver" /\ Len(t.segs) \in {1, 2}

\* C18: with FilterSemver on and ReleaseOnly off a shorthand tag (X or X.Y)
\* is not accepted as a version: none is in the output.
C18_ShorthandNeedsReleaseOnly ==
    (op # "init" /\ opt.FilterSemver /\ ~opt.ReleaseOnly) =>
        \A i \in 1..Len(out) : ~ShorthandTag(out[i])

\* ------------------------------------------------------------ claim C19

\* The tag starts with the marker letter v or V (the empty tag does not).
LeadingMarker(t) == Bytes(t) # <<>> /\ Head(Bytes(t)) \in {118, 86}

\* The four raw gates, each on its own.
VPrefixGate(t) ==
    CASE opt.VPrefix = "v" -> LeadingMarker(t)
      [] opt.VPrefix = "none" -> ~LeadingMarker(t)
      [] OTHER -> TRUE

SignatureGate(t) == opt.ExcludeSignatures => t # SigTag

IncludeGate(t) == opt.Include = "nil" \/ MatchString(opt.Include, t)

ExcludeGate(t) == opt.Exclude = "nil" \/ ~MatchString(opt.Exclude, t)

GatesPass(t) == VPrefixGate(t) /\ SignatureGate(t) /\ IncludeGate(t) /\ ExcludeGate(t)

\* The first n items of s, all of s when n = 0.
Capped(s, n) == IF n > 0 /\ n < Len(s) THEN SubSeq(s, 1, n) ELSE s

\* Filter has run with neither FilterSemver nor ReleaseOnly.
UngatedFilter ==
    op \in {"Filter", "Filter_bench"} /\ ~opt.FilterSemver /\ ~opt.ReleaseOnly

\* C19: with neither FilterSemver nor ReleaseOnly, Filter returns exactly
\* the tags that pass the raw prefilter, verbatim and in input order, cut to
\* Limit; Range, Deduplicate, Depth and OutputCanonical change nothing.
C19_FastPathVerbatim ==
    UngatedFilter => out = Capped(SelectSeq(tags, GatesPass), opt.Limit)

\* A floor of 2, deduplication, Depth = Minor and canonical output are all
\* set, and the two spellings of 1.0.0 come back as they were given.
C19_Witness ==
    /\ UngatedFilter
    /\ Enabled(opt.Range) /\ opt.Deduplicate /\ opt.OutputCanonical /\ opt.Depth = "minor"
    /\ tags = << Ver("V", <<1, 0, 0>>, <<>>, 0), Ver("", <<1, 0, 0>>, <<>>, 0) >>
    /\ out = tags

\* ------------------------------------------------------------ claim C20

\* C20: a tag passes the raw prefilter exactly when it passes every gate
\* (VPrefix, with the empty tag counting as having no marker; signature;
\* Include; Exclude); so prefilterTag and preFilterRaw keep the same tags,
\* in input order, for every option set.
C20_PrefilterAgreement ==
    /\ op \in {"prefilterTag", "preFilterRaw"} => out = SelectSeq(tags, GatesPass)
    /\ \A i \in 1..Len(tags) :
           prefilterTag(tags[i], opt) <=> (preFilterRaw(<<tags[i]>>, opt) = <<tags[i]>>)

\* VPrefix requires the marker: the empty tag is dropped and V1.0.0 is kept.
C20_Witness ==
    /\ op \in {"prefilterTag", "preFilterRaw"}
    /\ opt.VPrefix = "v"
    /\ tags = << EmptyStr, Ver("V", <<1, 0, 0>>, <<>>, 0) >>
    /\ out = << Ver("V", <<1, 0, 0>>, <<>>, 0) >>

\* ------------------------------------------------------------ claim C21

\* How often x occurs in s.
Count(s, x) == Cardinality({i \in 1..Len(s) : s[i] = x})

\* Filter or a Select has run with canonical and SemVer rendering off.
VerbatimRun == op # "init" /\ ~opt.OutputCanonical /\ ~opt.OutputSemVer

\* C21: with canonical and SemVer rendering off, every element of the
\* result is an input string unchanged, and no string occurs more often in
\* the output than in the input.
C21_OutputVerbatim ==
    VerbatimRun => \A i \in 1..Len(out) : Count(out, out[i]) <= Count(tags, out[i])

\* The leading v and the build metadata come back as given, and the tag
\* listed twice comes back twice.
C21_Witness ==
    /\ VerbatimRun
    /\ opt.FilterSemver
    /\ tags = << Ver("v", <<1, 0, 0>>, <<>>, 0), Ver("", <<1, 0, 0>>, <<>>, 1),
                 Ver("v", <<1, 0, 0>>, <<>>, 0) >>
    /\ out = tags

\* ------------------------------------------------------------ claim C22

NoRepeats(s) == \A i, j \in 1..Len(s) : i # j => s[i] # s[j]

\* C22: with OutputCanonical on, the rendered output never contains two
\* equal strings, whether or not Deduplicate is set.
C22_CanonicalImpliesDedup ==
    (op # "init" /\ opt.OutputCanonical) => NoRepeats(out)

\* The same statement for Filter, and the Selects built on it, when they
\* gate by version.
C22_FilterGated ==
    (op \in {"Filter", "Filter_bench", "Select_api", "Select_part_001"} /\ opt.FilterSemver)
        => C22_CanonicalImpliesDedup

\* ------------------------------------------------------------ claim C23

\* The first min(n, Len(s)) elements of s when n > 0, and s otherwise.
FirstN(s, n) == IF n > 0 THEN SubSeq(s, 1, Min2(n, Len(s))) ELSE s

\* What the operation returns when no limit is set.
Unlimited_(o) ==
    IF op = "Filter" THEN Filter(tags, [o EXCEPT !.Limit = 0])
    ELSE Filter_bench(tags, [o EXCEPT !.Limit = 0])

\* C23: capStrings returns the first min(limit, len) elements in order when
\* limit > 0 and the whole list when limit <= 0; Filter with Limit = N > 0
\* returns the first N of the survivors it returns without a limit, and all
\* of them with Limit <= 0.
C23_CapStrings ==
    /\ op = "capStrings" => out = FirstN(tags, opt.Limit)
    /\ op \in {"Filter", "Filter_bench"} =>
           \E f \in Unlimited_(opt) : out = FirstN(f, opt.Limit)

\* Limit 2 on three survivors: the first two come back, in order.
C23_Witness ==
    /\ op \in {"capStrings", "Filter"}
    /\ opt.Limit = 2
    /\ tags = << Ver("", <<2, 0, 0>>, <<>>, 0), Ver("", <<1, 0, 0>>, <<>>, 0),
                 Ver("", <<1, 1, 0>>, <<>>, 0) >>
    /\ out = << Ver("", <<2, 0, 0>>, <<>>, 0), Ver("", <<1, 0, 0>>, <<>>, 0) >>

\* ------------------------------------------------- C24: input unchanged

\* The call sorted a list of at least two tags into another order.
Reordered == Len(out) = Len(info.before) /\ Len(out) >= 2 /\ out # info.before

\* C24: Select, Filter and Sort leave the caller's input slice as it was,
\* whatever the options: what they sort or compact in place is storage of
\* their own.
C24_InputUnchanged ==
    op \in {"Select", "Select_api", "Filter", "Sort"} => tags = info.before

\* Select sorted a list without versions, in place on its prefiltered copy.
C24_Witness ==
    /\ op = "Select"
    /\ opt.Sort # "none"
    /\ Reordered
    /\ \A i \in 1..Len(out) : ~Parse(out[i]).Valid
    /\ tags = info.before

\* ------------------------------------------- C25: shorthand normalization

\* The bytes of a string without one leading lower-case v.
WithoutV(b) == IF Len(b) > 0 /\ b[1] = 118 THEN SubSeq(b, 2, Len(b)) ELSE b

\* The dots of a release text tell its shape: digits only, with no dash.
DotCount(b) == Cardinality({i \in 1..Len(b) : b[i] = 46})

ReleaseText(b) ==
    /\ Len(WithoutV(b)) > 0
    /\ \A i \in 1..Len(WithoutV(b)) : WithoutV(b)[i] \in (48..57) \cup {46}

\* What normalization is to return for the text b.
NormalizedText(b) ==
    IF ReleaseText(b) /\ DotCount(b) = 0 THEN WithoutV(b) \o <<46, 48, 46, 48>>
    ELSE IF ReleaseText(b) /\ DotCount(b) = 1 THEN WithoutV(b) \o <<46, 48>>
    ELSE WithoutV(b)

\* The three segments of a release, the absent ones as zero.
ZeroFilled(t) ==
    <<t.segs[1],
      IF Len(t.segs) >= 2 THEN t.segs[2] ELSE 0,
      IF Len(t.segs) >= 3 THEN t.segs[3] ELSE 0>>

TripleLess(a, b) ==
    \/ a[1] < b[1]
    \/ a[1] = b[1] /\ a[2] < b[2]
    \/ a[1] = b[1] /\ a[2] = b[2] /\ a[3] < b[3]

ReleasesOnly(s) == \A i \in 1..Len(s) : relX(s[i]) \/ relXY(s[i]) \/ relXYZ(s[i])

GroupKey(t, depth) ==
    CASE depth = "minor" -> <<t.segs[1], t.segs[2]>>
      [] depth = "major" -> <<t.segs[1]>>
      [] OTHER -> <<>>

\* The tags the range stage of the call lets through.
ClipSurvivors ==
    IF ~Enabled(opt.Range) THEN tags
    ELSE IF op = "Filter" THEN Originals(clipRange(ParsedOf(tags), opt.Range))
    ELSE Raws(applyRange(parseAll(tags), opt.Range))

\* C26: the range clip runs before the depth aggregation: every group with
\* a member inside the range is represented by exactly one tag, the highest
\* in precedence of its members inside the range, and a group without such
\* a member is not represented at all.
C26_BestInRangePerGroup ==
    op \in {"Filter", "Select"} =>
       /\ \A i \in 1..Len(out) : out[i] \in Range_(ClipSurvivors)
       /\ \A s \in Range_(ClipSurvivors) :
             \E i \in 1..Len(out) :
                 /\ GroupKey(out[i], opt.Depth) = GroupKey(s, opt.Depth)
                 /\ Prec(out[i], s) >= 0
       /\ \A i, j \in 1..Len(out) :
             i < j => GroupKey(out[i], opt.Depth) # GroupKey(out[j], opt.Depth)

\* Ceiling 1.2.5, minor depth: series 1.2 gives 1.2.3 although 1.2.9 is
\* its highest, and series 1.3 gives nothing.
C26_Witness ==
    /\ op = "Select"
    /\ opt.Depth = "minor"
    /\ opt.Range.Max = Ver("", <<1, 2, 5>>, <<>>, 0)
    /\ tags = <<Ver("", <<1, 2, 9>>, <<>>, 0), Ver("", <<1, 2, 3>>, <<>>, 0),
                Ver("", <<1, 3, 0>>, <<>>, 0)>>
    /\ out = <<Ver("", <<1, 2, 3>>, <<>>, 0)>>

\* ------------------------------------------- C27: Format mask, releases only

ValidRelease(t) == IsValid(Parse(t)) /\ IsRelease(Parse(t))

\* C27: with a Format mask set, every tag Select returns is a valid release
\* version, also when no tag of the input parses and FilterSemver is off.
C27_FormatMaskOnlyReleases ==
    (op = "Select" /\ opt.Format # {}) => \A i \in 1..Len(out) : ValidRelease(out[i])

\* The same statement when some tag of the input parses, or FilterSemver
\* (or ReleaseOnly, which implies it) is on.
C27_WithVersionOrFilterSemver ==
    (op = "Select" /\ opt.Format # {}
       /\ (normalized(opt).FilterSemver \/ \E i \in 1..Len(tags) : IsValid(Parse(tags[i]))))
    => \A i \in 1..Len(out) : ValidRelease(out[i])

\* Select(["latest"], Options{Format: FormatXYZ}) returns ["latest"].
C27_StringOnlyLeak ==
    /\ op = "Select"
    /\ opt.Format = {"XYZ"}
    /\ ~opt.FilterSemver /\ ~opt.ReleaseOnly
    /\ tags = <<Junk(1)>>
    /\ out = <<Junk(1)>>

\* --------------------------------------- C28: exclusive shorthand Min

\* The floor a shorthand Min names: X.0.0 or X.Y.0, with prerelease 0 when
\* prereleases are included.
ShorthandFloor(r) ==
    Ver("", <<r.Min.segs[1], IF Len(r.Min.segs) >= 2 THEN r.Min.segs[2] ELSE 0, 0>>,
        IF r.IncludePrerelease THEN <<0>> ELSE <<>>, 0)

ExclusiveShortMin(r) == ShortMin(r) /\ r.MinExclusive /\ r.Max = EmptyStr

ExclusiveShortMax(r) ==
    (relX(r.Max) \/ relXY(r.Max)) /\ r.MaxExclusive /\ r.Min = EmptyStr

\* C28: an exclusive shorthand Min keeps exactly the versions strictly
\* above its floor (X.0.0 or X.Y.0, or that version with prerelease 0 when
\* prereleases are included), the later versions of the same series among
\* them; an exclusive shorthand Max (range.go) keeps no version of its
\* series.
C28_ExclusiveShorthandMin ==
    /\ (Ranged /\ ExclusiveShortMin(opt.Range)) =>
          out = SelectSeq(tags, LAMBDA t : Prec(t, ShorthandFloor(opt.Range)) > 0)
    /\ (op = "clipRange" /\ ExclusiveShortMax(opt.Range)) =>
          \A i \in 1..Len(out) : SeriesCmp(out[i], opt.Range.Max, Len(opt.Range.Max.segs)) < 0

\* Min v1.2 exclusive: 1.2.0 goes, 1.2.3 of the same series stays.
C28_Witness ==
    /\ op = "clipRange"
    /\ opt.Range.Min = Ver("v", <<1, 2>>, <<>>, 0)
    /\ opt.Range.MinExclusive
    /\ ~opt.Range.IncludePrerelease
    /\ opt.Range.Max = EmptyStr
    /\ tags = <<Ver("", <<1, 2, 0>>, <<>>, 0), Ver("", <<1, 2, 3>>, <<>>, 0)>>
    /\ out = <<Ver("", <<1, 2, 3>>, <<>>, 0)>>

\* ------------------------------------- C29: the convenience functions

AllCalled == op # "init" /\ info.called = {"Releases", "Latest", "LatestPerMajor"}

\* C29: on one input, Latest returns nothing or exactly the first element
\* of what LatestPerMajor returns, and LatestPerMajor returns a subsequence
\* of what Releases returns.
C29_LatestHeadsPerMajor ==
    AllCalled =>
       /\ info.Latest = (IF info.LatestPerMajor = <<>> THEN <<>>
                         ELSE <<info.LatestPerMajor[1]>>)
       /\ Subsequence(info.LatestPerMajor, info.Releases)

\* Three calls on 1.2.0, 2, 1.0.0: Latest 2, per major 2 and 1.2.0, and the
\* releases 2, 1.2.0, 1.0.0.
C29_Witness ==
    /\ AllCalled
    /\ tags = <<Ver("", <<1, 2, 0>>, <<>>, 0), Ver("", <<2>>, <<>>, 0),
                Ver("", <<1, 0, 0>>, <<>>, 0)>>
    /\ info.Latest = <<Ver("", <<2>>, <<>>, 0)>>
    /\ info.LatestPerMajor = <<Ver("", <<2>>, <<>>, 0), Ver("", <<1, 2, 0>>, <<>>, 0)>>
    /\ info.Releases = <<Ver("", <<2>>, <<>>, 0), Ver("", <<1, 2, 0>>, <<>>, 0),
                         Ver("", <<1, 0, 0>>, <<>>, 0)>>

\* ------------------------------------------ C30: the packed group key

\* C30: two versions that differ in major or minor never get the same
\* packed key, for every non-negative major and minor.
C30_PackInjective ==
    (op = "pack" /\ out[1] = out[2]) =>
        (tags[1].Major = tags[2].Major /\ tags[1].Minor = tags[2].Minor)

\* The same statement for majors and minors below 2^32.
C30_InjectiveBelow32Bits ==
    (op = "pack" /\ out[1] = out[2]
       /\ \A i \in 1..2 : tags[i].Major[1] = 0 /\ tags[i].Major[2] = 0
                          /\ tags[i].Minor[1] = 0 /\ tags[i].Minor[2] = 0) =>
        (tags[1].Major = tags[2].Major /\ tags[1].Minor = tags[2].Minor)

\* 1.0 and 1.4294967296 get the same key.
C30_Collision ==
    /\ op = "pack"
    /\ tags[1] = [Major |-> <<0, 0, 0, 1>>, Minor |-> <<0, 0, 0, 0>>]
    /\ tags[2] = [Major |-> <<0, 0, 0, 1>>, Minor |-> <<0, 1, 0, 0>>]
    /\ out[1] = out[2]

====
